---- MODULE Spec2Model ----
(***************************************************************************)
(* Halfedge mesh of geometry-processing-js: Mesh.build (soup -> halfedge   *)
(* connectivity, boundary loops, validation, indexing) and the adjacency   *)
(* iterators of Vertex and Face.                                           *)
(*                                                                         *)
(* Objects are modelled by their creation order within their class: the    *)
(* k-th Halfedge created by a build is halfedge k, and so on.  The object  *)
(* tables vObj, eObj, fObj, hObj, cObj hold the fields of the objects; the *)
(* arrays of the Mesh (vertices, edges, ...) hold references, with Undef   *)
(* in a slot that was preallocated and never written.  Source arrays are   *)
(* 0-based; they are stored in TLA+ sequences and read with At.            *)
(***************************************************************************)
EXTENDS Integers, Sequences, FiniteSets, TLC

(* ----------------------------- bounds --------------------------------- *)
\* Spec: every soup with at most MaxPositions positions and MaxTriangles triangles.
MaxPositions == 4
MaxTriangles == 3
\* SpecWide: the soups of at most MaxPositionsWide positions and
\* MaxTrianglesWide triangles that are numbered by first use and have no
\* edge in three triangles.
MaxPositionsWide == 5
MaxTrianglesWide == 4
\* SpecTraversal: the iterator objects and the cursors alive at a time
MaxIterators == 2
MaxCursors == 2
\* SpecRebuild: the builds of one Mesh after its first
MaxRebuilds == 2
\* SpecStar: the number of simplices of the subset handed to star
MaxSubsetSize == 2
\* SpecComplex: the number of simplices a handed subset is made of, and the
\* number of values of Math.random() per permutation that are not 0
MaxSeed == 3
MaxShuffled == 1

(* ------------------------- element records ---------------------------- *)
\* JS undefined, for a reference field or an array slot
Undef == -1
\* this.index = -1 of a freshly constructed element
NoIndex == -1

NewVertex == [halfedge |-> Undef, index |-> NoIndex]
NewEdge == [halfedge |-> Undef, index |-> NoIndex]
NewFace == [halfedge |-> Undef, index |-> NoIndex]
NewCorner == [halfedge |-> Undef, index |-> NoIndex]
\* onBoundary is read by the code only for its truthiness; the undefined of
\* a fresh Halfedge is stored as FALSE.
NewHalfedge ==
  [vertex |-> Undef, edge |-> Undef, face |-> Undef, corner |-> Undef,
   next |-> Undef, prev |-> Undef, twin |-> Undef, onBoundary |-> FALSE,
   index |-> NoIndex]

(* ------------------------------ arrays -------------------------------- *)
\* a[i] of a 0-based JS array
At(a, i) == a[i + 1]
\* new Array(n): n empty slots
NewArray(n) == [k \in 1..n |-> Undef]
\* a[i] = x; a JS array grows when it is written past its length
ArraySet(a, i, x) ==
  IF i < Len(a) THEN [a EXCEPT ![i + 1] = x]
  ELSE a \o [k \in 1..(i - Len(a)) |-> Undef] \o <<x>>
\* Map.get used as a condition: a missing key gives undefined, which is falsy
MapGet(m, k) == IF k \in DOMAIN m THEN m[k] ELSE FALSE
\* Map.set
MapSet(m, k, x) == (k :> x) @@ m
EmptyMap == [k \in {} |-> FALSE]

(* ------------------------------- Mesh --------------------------------- *)
\* new Mesh()
NewMesh ==
  [vertices |-> <<>>, edges |-> <<>>, faces |-> <<>>, corners |-> <<>>,
   halfedges |-> <<>>, boundaries |-> <<>>, generators |-> <<>>,
   vObj |-> <<>>, eObj |-> <<>>, fObj |-> <<>>, hObj |-> <<>>, cObj |-> <<>>]

\* The canonical edge key of the directed edge i -> j: [min, max].toString().
\* "i,j" of two non-negative integers determines the pair; the pair stands for it.
EdgeKey(i, j) == IF i > j THEN <<j, i>> ELSE <<i, j>>

\* The directed edges (I + J -> I + K) of the soup's triangles, by flat position.
SoupKey(indices, p) ==
  LET I == 3 * (p \div 3)
      J == p % 3
      K == (J + 1) % 3
  IN EdgeKey(indices[I + J + 1], indices[I + K + 1])

\* Slip: nBoundaryHalfedges is not decremented for a repeated key
PreallocCountsNoDecrement(nPositions, indices) ==
  LET nEdges == Cardinality({SoupKey(indices, p) : p \in 0..(Len(indices) - 1)})
      nBoundaryHalfedges == nEdges
      nHalfedges == 2 * nEdges
  IN [nVertices |-> nPositions, nEdges |-> nEdges,
      nFaces |-> Len(indices) \div 3, nHalfedges |-> nHalfedges,
      nInteriorHalfedges |-> nHalfedges - nBoundaryHalfedges]

\* preallocateElements, lines 223-250: the counts.  sortedEdges ends as the
\* set of distinct keys; nBoundaryHalfedges was incremented once per distinct
\* key (its first occurrence) and decremented for every other occurrence.
PreallocCounts(nPositions, indices) ==
  LET nEdges == Cardinality({SoupKey(indices, p) : p \in 0..(Len(indices) - 1)})
      nBoundaryHalfedges == nEdges - (Len(indices) - nEdges)
      nHalfedges == 2 * nEdges
  IN [nVertices |-> nPositions, nEdges |-> nEdges,
      nFaces |-> Len(indices) \div 3, nHalfedges |-> nHalfedges,
      nInteriorHalfedges |-> nHalfedges - nBoundaryHalfedges]

\* Slip: array.length = 0 leaves the array as it is
KeepLength(array, n) == array

\* array.length = n, for n no greater than the length of the array
SetLength(array, n) == SubSeq(array, 1, n)

\* preallocateElements, lines 252-266: the arrays of mesh m.  vertices,
\* edges, faces, halfedges and corners are cleared and then replaced by new
\* arrays; boundaries and generators are cleared.  The objects of an earlier
\* build stay where they are, no longer referenced by these arrays.
preallocateElements(m, nPositions, indices) ==
  LET n == PreallocCounts(nPositions, indices)
  IN [vertices |-> NewArray(n.nVertices), edges |-> NewArray(n.nEdges),
      faces |-> NewArray(n.nFaces), halfedges |-> NewArray(n.nHalfedges),
      corners |-> NewArray(n.nInteriorHalfedges),
      boundaries |-> SetLength(m.boundaries, 0),
      generators |-> SetLength(m.generators, 0),
      vObj |-> m.vObj, eObj |-> m.eObj, fObj |-> m.fObj, hObj |-> m.hObj,
      cObj |-> m.cObj]

(* ---------------------- build: interior elements ---------------------- *)
\* The state of a running build: the mesh, the locals of build, the alerts
\* raised so far and ret, "running" until build returns or fails to return.
StartBuild(m, nPositions, indices) ==
  preallocateElements(m, nPositions, indices) @@
  [eIndex |-> 0, edgeCount |-> EmptyMap, existingHalfedges |-> EmptyMap,
   hasTwinHalfedge |-> EmptyMap, hIndex |-> 0, cIndex |-> 0,
   ret |-> "running", alerts |-> <<>>]

\* lines 54-58: one Vertex per position, vertex i in slot i
CreateVertices(b, nPositions) ==
  [b EXCEPT !.vObj = @ \o [i \in 1..nPositions |-> NewVertex],
            !.vertices = [i \in 1..nPositions |-> Len(b.vObj) + i - 1]]

\* Slip: the new halfedge is not given its twin's edge
LinkTwinsNoEdge(hObj, h, twin) ==
  [hObj EXCEPT ![h + 1].twin = twin, ![twin + 1].twin = h]

\* lines 108-110: h and the halfedge recorded for its key become twins on
\* the recorded halfedge's edge
LinkTwins(hObj, h, twin) ==
  [hObj EXCEPT ![h + 1] = [@ EXCEPT !.twin = twin, !.edge = hObj[twin + 1].edge],
               ![twin + 1].twin = h]

\* Slip: an edge may have three halfedges
TooManyHalfedgesSlack(edgeCount, key) == edgeCount[key] > 3

\* line 129: edgeCount.get(key) > 2
TooManyHalfedges(edgeCount, key) == edgeCount[key] > 2

\* lines 78-132: initialise halfedge I + J of the face started at I
InitHalfedge(b, indices, I, J) ==
  LET K == (J + 1) % 3
      i == indices[I + J + 1]
      j == indices[I + K + 1]
      h == At(b.halfedges, I + J)
      v == At(b.vertices, i)
      f == At(b.faces, I \div 3)
      key == EdgeKey(i, j)
      \* lines 84-97
      b1 == [b EXCEPT !.hObj[h + 1] =
                         [@ EXCEPT !.next = At(b.halfedges, I + K),
                                   !.prev = At(b.halfedges, I + ((J + 3 - 1) % 3)),
                                   !.onBoundary = FALSE,
                                   !.vertex = v,
                                   !.face = f],
                      !.hasTwinHalfedge = MapSet(@, h, FALSE),
                      !.vObj[v + 1].halfedge = h,
                      !.fObj[f + 1].halfedge = h]
      b2 == IF key \in DOMAIN b1.existingHalfedges
            THEN \* lines 107-114
                 LET twin == b1.existingHalfedges[key]
                 IN [b1 EXCEPT !.hObj = LinkTwins(@, h, twin),
                               !.hasTwinHalfedge = MapSet(MapSet(@, h, TRUE), twin, TRUE),
                               !.edgeCount[key] = @ + 1]
            ELSE \* lines 118-125
                 LET e == Len(b1.eObj)
                 IN [b1 EXCEPT !.eObj = Append(@, [NewEdge EXCEPT !.halfedge = h]),
                               !.edges = ArraySet(@, b1.eIndex, e),
                               !.eIndex = @ + 1,
                               !.hObj[h + 1].edge = e,
                               !.existingHalfedges = MapSet(@, key, h),
                               !.edgeCount = MapSet(@, key, 1)]
  IN IF TooManyHalfedges(b2.edgeCount, key)
     THEN [b2 EXCEPT !.alerts = Append(@, "Mesh has non-manifold edges!"),
                     !.ret = "false"]
     ELSE b2

\* lines 77-133: the loop over J, left early by return false
RECURSIVE InitHalfedges(_, _, _, _)
InitHalfedges(b, indices, I, J) ==
  IF J >= 3 \/ b.ret # "running" THEN b
  ELSE InitHalfedges(InitHalfedge(b, indices, I, J), indices, I, J + 1)

\* lines 66-74: a new Face and its three Halfedges
CreateFace(b, I) ==
  LET f == Len(b.fObj)
      h0 == Len(b.hObj)
  IN [b EXCEPT !.fObj = Append(@, NewFace),
               !.faces = ArraySet(@, I \div 3, f),
               !.hObj = @ \o <<NewHalfedge, NewHalfedge, NewHalfedge>>,
               !.halfedges = ArraySet(ArraySet(ArraySet(@, I, h0), I + 1, h0 + 1),
                                      I + 2, h0 + 2)]

\* lines 65-134: the loop over the triangles
RECURSIVE CreateFaces(_, _, _)
CreateFaces(b, indices, I) ==
  IF I >= Len(indices) \/ b.ret # "running" THEN b
  ELSE CreateFaces(InitHalfedges(CreateFace(b, I), indices, I, 0), indices, I + 3)

(* ------------------------ adjacency iterators ------------------------- *)
\* The object returned by [Symbol.iterator]() of every iterator class
NewIterator(halfedge, ccw) ==
  [current |-> halfedge, end |-> halfedge, ccw |-> ccw, justStarted |-> TRUE]

\* Slip: the clockwise step is twin.prev
VertexStepTwinPrev(hObj, current, ccw) ==
  IF ccw THEN hObj[hObj[current + 1].twin + 1].next
  ELSE hObj[hObj[current + 1].twin + 1].prev

\* this.ccw ? this.current.twin.next : this.current.prev.twin
VertexStep(hObj, current, ccw) ==
  IF ccw THEN hObj[hObj[current + 1].twin + 1].next
  ELSE hObj[hObj[current + 1].prev + 1].twin

\* Slip: the clockwise step is next as well
FaceStepForward(hObj, current, ccw) == hObj[current + 1].next

\* this.ccw ? this.current.next : this.current.prev
FaceStep(hObj, current, ccw) ==
  IF ccw THEN hObj[current + 1].next ELSE hObj[current + 1].prev

\* Result of a loop that never ends
Diverges == -2

\* Result of reading a property of undefined
Throws == -3

\* The classes whose constructor and next() skip halfedges on the boundary
SkippingKinds == {"VertexFace", "VertexCorner", "FaceFace"}
VertexKinds ==
  {"VertexVertex", "VertexEdge", "VertexHalfedge", "VertexFace", "VertexCorner"}

\* The step of the iterators of a class
IteratorStep(hObj, kind, current, ccw) ==
  IF kind \in VertexKinds THEN VertexStep(hObj, current, ccw)
  ELSE FaceStep(hObj, current, ccw)

\* Slip: the loops skip the halfedges that are not on the boundary
MustSkipInterior(hObj, kind, h) ==
  IF kind = "FaceFace" THEN ~hObj[hObj[h + 1].twin + 1].onBoundary
  ELSE ~hObj[h + 1].onBoundary

\* The loop conditions halfedge.onBoundary (VertexFaceIterator,
\* VertexCornerIterator) and halfedge.twin.onBoundary (FaceFaceIterator)
MustSkip(hObj, kind, h) ==
  IF kind = "FaceFace" THEN hObj[hObj[h + 1].twin + 1].onBoundary
  ELSE hObj[h + 1].onBoundary

\* while (<h on the boundary>) h = <step>: the halfedge the loop ends at,
\* Throws when h is undefined and Diverges when the loop has made more steps
\* than there are halfedges
RECURSIVE SkipBoundary(_, _, _, _, _)
SkipBoundary(hObj, kind, h, ccw, fuel) ==
  IF h = Undef THEN Throws
  ELSE IF ~MustSkip(hObj, kind, h) THEN h
  ELSE IF fuel = 0 THEN Diverges
  ELSE SkipBoundary(hObj, kind, IteratorStep(hObj, kind, h, ccw), ccw, fuel - 1)

\* this._halfedge as the constructor of the class leaves it: the skipping
\* classes advance it, always by twin.next (vertex) or next (face)
IteratorHalfedge(hObj, kind, halfedge) ==
  IF kind \in SkippingKinds
  THEN SkipBoundary(hObj, kind, halfedge, TRUE, Len(hObj))
  ELSE halfedge

\* next() of the iterator classes of Vertex and Face: they differ in the
\* skipping loop, in the value extracted and in the step.  Reading a
\* property of a cursor that is undefined throws.  FaceCornerIterator
\* advances before it extracts.
Stop(it) ==
  [done |-> FALSE, throws |-> FALSE, diverges |-> FALSE,
   value |-> Undef, it |-> it]

\* the value next() extracts at cursor c, step being the cursor it moves to
IteratorValue(hObj, kind, c, step) ==
  CASE kind = "VertexVertex" -> hObj[hObj[c + 1].twin + 1].vertex
    [] kind = "VertexEdge" -> hObj[c + 1].edge
    [] kind = "VertexFace" -> hObj[c + 1].face
    [] kind = "VertexHalfedge" -> c
    [] kind = "VertexCorner" -> hObj[hObj[c + 1].next + 1].corner
    [] kind = "FaceVertex" -> hObj[c + 1].vertex
    [] kind = "FaceEdge" -> hObj[c + 1].edge
    [] kind = "FaceFace" -> hObj[hObj[c + 1].twin + 1].face
    [] kind = "FaceHalfedge" -> c
    [] kind = "FaceCorner" -> hObj[step + 1].corner

\* next() once its cursor c is not the end: extract and move to step
IteratorYield(hObj, kind, it, c, step) ==
  IF kind = "FaceCorner" /\ step = Undef
  THEN [Stop(it) EXCEPT !.throws = TRUE]
  ELSE [Stop(it) EXCEPT
          !.value = IteratorValue(hObj, kind, c, step),
          !.it = [it EXCEPT !.justStarted = FALSE, !.current = step]]

\* next() after its skipping loop has left the cursor at c
IteratorNextAt(hObj, kind, it, c) ==
  IF c = Throws THEN [Stop(it) EXCEPT !.throws = TRUE]
  ELSE IF c = Diverges THEN [Stop(it) EXCEPT !.diverges = TRUE]
  ELSE IF ~it.justStarted /\ c = it.end
  THEN [Stop(it) EXCEPT !.done = TRUE, !.it.current = c]
  ELSE IF c = Undef THEN [Stop(it) EXCEPT !.throws = TRUE]
  ELSE IteratorYield(hObj, kind, it, c, IteratorStep(hObj, kind, c, it.ccw))

IteratorNext(hObj, kind, it) ==
  IteratorNextAt(hObj, kind, it,
                 IF kind \in SkippingKinds
                 THEN SkipBoundary(hObj, kind, it.current, it.ccw, Len(hObj))
                 ELSE it.current)

\* for (let x of iterator): the values yielded until done.  next() on a
\* cursor that is undefined reads a property of undefined and throws a
\* TypeError out of the loop.  An iteration that has yielded more values than
\* there are halfedges repeats a cursor and never ends; ends is then FALSE.
RECURSIVE ForOfFrom(_, _, _, _, _)
\* the loop body after one call of next() has returned r
ForOfAfter(hObj, kind, r, values, fuel) ==
  IF r.done THEN [values |-> values, ends |-> TRUE, throws |-> FALSE]
  ELSE IF r.throws THEN [values |-> values, ends |-> FALSE, throws |-> TRUE]
  ELSE IF r.diverges \/ fuel = 0
  THEN [values |-> values, ends |-> FALSE, throws |-> FALSE]
  ELSE ForOfFrom(hObj, kind, r.it, Append(values, r.value), fuel - 1)

ForOfFrom(hObj, kind, it, values, fuel) ==
  ForOfAfter(hObj, kind, IteratorNext(hObj, kind, it), values, fuel)

\* the loop once the constructor has left the cursor at h
ForOfAt(hObj, kind, h, ccw) ==
  IF h = Throws THEN [values |-> <<>>, ends |-> FALSE, throws |-> TRUE]
  ELSE IF h = Diverges THEN [values |-> <<>>, ends |-> FALSE, throws |-> FALSE]
  ELSE ForOfFrom(hObj, kind, NewIterator(h, ccw), <<>>, Len(hObj))

\* for (let x of new <kind>Iterator(halfedge, ccw))
ForOf(hObj, kind, halfedge, ccw) ==
  ForOfAt(hObj, kind, IteratorHalfedge(hObj, kind, halfedge), ccw)

\* Vertex.degree: the number of values of adjacentEdges()
degree(m, v) == Len(ForOf(m.hObj, "VertexEdge", m.vObj[v + 1].halfedge, TRUE).values)

\* Vertex.isIsolated
isIsolated(m, v) == m.vObj[v + 1].halfedge = Undef

\* Vertex.onBoundary
onBoundary(m, v) ==
  LET hs == ForOf(m.hObj, "VertexHalfedge", m.vObj[v + 1].halfedge, TRUE).values
  IN \E k \in DOMAIN hs : m.hObj[hs[k] + 1].onBoundary

\* Face.isBoundaryLoop
isBoundaryLoop(m, f) == m.hObj[m.fObj[f + 1].halfedge + 1].onBoundary

\* Mesh.eulerCharacteristic
eulerCharacteristic(m) == Len(m.vertices) - Len(m.edges) + Len(m.faces)

(* ------------------ build: boundary loops and corners ----------------- *)
\* lines 159-162: from nextHe, the next halfedge without a twin.  Nothing the
\* loop reads changes while it runs, so a walk longer than the number of
\* halfedges never ends.
RECURSIVE SkipTwinned(_, _, _)
SkipTwinned(b, nextHe, fuel) ==
  IF ~MapGet(b.hasTwinHalfedge, nextHe) THEN nextHe
  ELSE IF fuel = 0 THEN Diverges
  ELSE SkipTwinned(b, b.hObj[b.hObj[nextHe + 1].twin + 1].next, fuel - 1)

\* lines 152-179: the do-while walk along the boundary cycle seeded at h.
\* The successor of he depends on nothing the walk changes, so a walk of more
\* steps than there are interior halfedges never returns to h.
RECURSIVE BoundaryWalk(_, _, _, _, _, _)
BoundaryWalk(b, f, h, he, boundaryCycle, fuel) ==
  LET bH == Len(b.hObj)
      b1 == [b EXCEPT !.hObj = Append(@, NewHalfedge),
                      !.halfedges = ArraySet(@, b.hIndex, bH),
                      !.hIndex = @ + 1]
      nextHe == SkipTwinned(b1, b1.hObj[he + 1].next, Len(b1.hObj))
      b2 == [b1 EXCEPT !.hObj[bH + 1] =
                          [@ EXCEPT !.vertex = b1.hObj[nextHe + 1].vertex,
                                    !.edge = b1.hObj[he + 1].edge,
                                    !.onBoundary = TRUE,
                                    !.face = f,
                                    !.twin = he],
                       !.fObj[f + 1].halfedge = bH,
                       !.hObj[he + 1].twin = bH]
  IN IF nextHe = Diverges \/ fuel = 0
     THEN [b |-> [b1 EXCEPT !.ret = "diverges"], boundaryCycle |-> boundaryCycle]
     ELSE IF nextHe = h
     THEN [b |-> b2, boundaryCycle |-> Append(boundaryCycle, bH)]
     ELSE BoundaryWalk(b2, f, h, nextHe, Append(boundaryCycle, bH), fuel - 1)

\* Slip: next and prev of the boundary halfedges are exchanged
RECURSIVE LinkCycleBackwards(_, _, _)
LinkCycleBackwards(b, boundaryCycle, j) ==
  LET n == Len(boundaryCycle)
      c == At(boundaryCycle, j)
  IN IF j >= n THEN b
     ELSE LinkCycleBackwards(
            [b EXCEPT !.hObj[c + 1] =
                         [@ EXCEPT !.next = At(boundaryCycle, (j + 1) % n),
                                   !.prev = At(boundaryCycle, (j + n - 1) % n)],
                      !.hasTwinHalfedge =
                         MapSet(MapSet(@, c, TRUE), b.hObj[c + 1].twin, TRUE)],
            boundaryCycle, j + 1)

\* lines 182-188: link the boundary halfedges, in clockwise order
RECURSIVE LinkCycle(_, _, _)
LinkCycle(b, boundaryCycle, j) ==
  LET n == Len(boundaryCycle)
      c == At(boundaryCycle, j)
  IN IF j >= n THEN b
     ELSE LinkCycle(
            [b EXCEPT !.hObj[c + 1] =
                         [@ EXCEPT !.next = At(boundaryCycle, (j + n - 1) % n),
                                   !.prev = At(boundaryCycle, (j + 1) % n)],
                      !.hasTwinHalfedge =
                         MapSet(MapSet(@, c, TRUE), b.hObj[c + 1].twin, TRUE)],
            boundaryCycle, j + 1)

\* lines 143-198: the body of the loop for interior halfedge i
BoundaryStep(b, nIndices, i) ==
  LET h == At(b.halfedges, i)
      f == Len(b.fObj)
      w == BoundaryWalk([b EXCEPT !.fObj = Append(@, NewFace),
                                  !.boundaries = Append(@, f)],
                        f, h, h, <<>>, nIndices)
      b1 == IF MapGet(b.hasTwinHalfedge, h) THEN b
            ELSE IF w.b.ret # "running" THEN w.b
            ELSE LinkCycle(w.b, w.boundaryCycle, 0)
      c == Len(b1.cObj)
  IN IF b1.ret = "running" /\ ~b1.hObj[h + 1].onBoundary
     THEN [b1 EXCEPT !.cObj = Append(@, [NewCorner EXCEPT !.halfedge = h]),
                     !.hObj[h + 1].corner = c,
                     !.corners = ArraySet(@, b1.cIndex, c),
                     !.cIndex = @ + 1]
     ELSE b1

\* lines 138-199
RECURSIVE CreateBoundaries(_, _, _)
CreateBoundaries(b, nIndices, i) ==
  IF i >= nIndices \/ b.ret # "running" THEN b
  ELSE CreateBoundaries(BoundaryStep(b, nIndices, i), nIndices, i + 1)

(* -------------------------- build: validation ------------------------- *)
\* hasIsolatedVertices: "true" with its alert if some vertex is isolated
hasIsolatedVertices(m) ==
  IF \E k \in 0..(Len(m.vertices) - 1) : isIsolated(m, At(m.vertices, k))
  THEN "true" ELSE "false"

\* Slip: the halfedge itself is tested, not its twin
BoundaryEdgesOwn(m, values) ==
  Cardinality({k \in DOMAIN values : m.hObj[values[k] + 1].onBoundary})

\* lines 294-297: the number of halfedges of f whose twin is on the boundary
BoundaryEdges(m, values) ==
  Cardinality({k \in DOMAIN values :
                 m.hObj[m.hObj[values[k] + 1].twin + 1].onBoundary})

\* hasIsolatedFaces, from face k of this.faces on
RECURSIVE hasIsolatedFacesFrom(_, _)
hasIsolatedFacesFrom(m, k) ==
  IF k >= Len(m.faces) THEN "false"
  ELSE LET f == At(m.faces, k)
           hs == ForOf(m.hObj, "FaceHalfedge", m.fObj[f + 1].halfedge, TRUE)
       IN IF hs.throws THEN "throws"
          ELSE IF ~hs.ends THEN "diverges"
          ELSE IF BoundaryEdges(m, hs.values) = 3 THEN "true"
          ELSE hasIsolatedFacesFrom(m, k + 1)

hasIsolatedFaces(m) == hasIsolatedFacesFrom(m, 0)

\* lines 320-330: the vertices yielded by adjacentVertices() of every face of
\* this.faces, then of every loop of this.boundaries, in order
RECURSIVE AdjacentVertexVisits(_, _, _)
AdjacentVertexVisits(m, faceArray, k) ==
  IF k >= Len(faceArray) THEN [values |-> <<>>, ends |-> TRUE, throws |-> FALSE]
  ELSE LET vs == ForOf(m.hObj, "FaceVertex", m.fObj[At(faceArray, k) + 1].halfedge, TRUE)
           rest == AdjacentVertexVisits(m, faceArray, k + 1)
       IN IF ~vs.ends THEN vs
          ELSE [values |-> vs.values \o rest.values, ends |-> rest.ends,
                throws |-> rest.throws]

\* adjacentFaces.get(v) after the counting loops, visits being their yields
AdjacentFaceCount(visits, v) == Cardinality({p \in DOMAIN visits : visits[p] = v})

\* Slip: only a count smaller than the degree is reported
RECURSIVE hasNonManifoldVerticesFromBelow(_, _, _)
hasNonManifoldVerticesFromBelow(m, visits, k) ==
  IF k >= Len(m.vertices) THEN "false"
  ELSE LET v == At(m.vertices, k)
           es == ForOf(m.hObj, "VertexEdge", m.vObj[v + 1].halfedge, TRUE)
       IN IF es.throws THEN "throws"
          ELSE IF ~es.ends THEN "diverges"
          ELSE IF AdjacentFaceCount(visits, v) < Len(es.values) THEN "true"
          ELSE hasNonManifoldVerticesFromBelow(m, visits, k + 1)

\* lines 332-336, from vertex k of this.vertices on
RECURSIVE hasNonManifoldVerticesFrom(_, _, _)
hasNonManifoldVerticesFrom(m, visits, k) ==
  IF k >= Len(m.vertices) THEN "false"
  ELSE LET v == At(m.vertices, k)
           es == ForOf(m.hObj, "VertexEdge", m.vObj[v + 1].halfedge, TRUE)
       IN IF es.throws THEN "throws"
          ELSE IF ~es.ends THEN "diverges"
          ELSE IF AdjacentFaceCount(visits, v) # Len(es.values) THEN "true"
          ELSE hasNonManifoldVerticesFrom(m, visits, k + 1)

\* hasNonManifoldVertices: returns true without raising an alert
hasNonManifoldVertices(m) ==
  LET fs == AdjacentVertexVisits(m, m.faces, 0)
      bs == AdjacentVertexVisits(m, m.boundaries, 0)
  IN IF fs.throws \/ (fs.ends /\ bs.throws) THEN "throws"
     ELSE IF ~fs.ends \/ ~bs.ends THEN "diverges"
     ELSE hasNonManifoldVerticesFrom(m, fs.values \o bs.values, 0)

\* for (let x of array) x.index = index++, over the objects objs of one class
RECURSIVE SetIndex(_, _, _)
SetIndex(objs, array, k) ==
  IF k >= Len(array) THEN objs
  ELSE SetIndex([objs EXCEPT ![At(array, k) + 1].index = k], array, k + 1)

\* Slip: the boundary loops are not indexed
indexElementsNoBoundaries(m) ==
  [m EXCEPT !.vObj = SetIndex(@, m.vertices, 0),
            !.eObj = SetIndex(@, m.edges, 0),
            !.fObj = SetIndex(@, m.faces, 0),
            !.hObj = SetIndex(@, m.halfedges, 0),
            !.cObj = SetIndex(@, m.corners, 0)]

\* indexElements: every array is numbered from 0 in storage order
indexElements(m) ==
  [m EXCEPT !.vObj = SetIndex(@, m.vertices, 0),
            !.eObj = SetIndex(@, m.edges, 0),
            !.fObj = SetIndex(SetIndex(@, m.faces, 0), m.boundaries, 0),
            !.hObj = SetIndex(@, m.halfedges, 0),
            !.cObj = SetIndex(@, m.corners, 0)]

(* ------------------------------- build -------------------------------- *)
\* return false after a check that returned true, raising the alert of the
\* check; a check that throws or never returns ends build the same way
Rejected(b, check, messages) ==
  IF check = "true" THEN [b EXCEPT !.alerts = @ \o messages, !.ret = "false"]
  ELSE [b EXCEPT !.ret = check]

\* Slip: the vertices are checked for isolation last
ValidateVerticesLast(b) ==
  LET v2 == hasIsolatedFaces(b)
      v3 == hasNonManifoldVertices(b)
      v1 == hasIsolatedVertices(b)
  IN IF v2 # "false" THEN Rejected(b, v2, <<"Mesh has isolated faces!">>)
     ELSE IF v3 # "false" THEN Rejected(b, v3, <<>>)
     ELSE IF v1 # "false" THEN Rejected(b, v1, <<"Mesh has isolated vertices!">>)
     ELSE [indexElements(b) EXCEPT !.ret = "true"]

\* lines 201-212: the three checks in order, then indexElements.  The alerts
\* are those raised inside hasIsolatedVertices (line 278) and hasIsolatedFaces
\* (line 300); hasNonManifoldVertices raises none.
Validate(b) ==
  LET v1 == hasIsolatedVertices(b)
      v2 == hasIsolatedFaces(b)
      v3 == hasNonManifoldVertices(b)
  IN IF v1 # "false" THEN Rejected(b, v1, <<"Mesh has isolated vertices!">>)
     ELSE IF v2 # "false" THEN Rejected(b, v2, <<"Mesh has isolated faces!">>)
     ELSE IF v3 # "false" THEN Rejected(b, v3, <<>>)
     ELSE [indexElements(b) EXCEPT !.ret = "true"]

\* lines 201-212, b3 being the state after the loop
\* that creates the boundary cycles
BuildWithBoundaries(b3) ==
  IF b3.ret # "running" THEN b3 ELSE Validate(b3)

\* lines 136-212, b2 being the state after the loop over the triangles
BuildWithFaces(b2, indices) ==
  IF b2.ret # "running" THEN b2
  ELSE BuildWithBoundaries(
         CreateBoundaries([b2 EXCEPT !.hIndex = Len(indices)], Len(indices), 0))

\* m.build(polygonSoup): the final state of the call.  ret is "true" or
\* "false" for the value returned, "throws" when the call ends with a
\* TypeError and "diverges" when it never returns.
build(m, nPositions, indices) ==
  BuildWithFaces(CreateFaces(CreateVertices(StartBuild(m, nPositions, indices),
                                            nPositions),
                             indices, 0),
                 indices)

\* The fields of the Mesh object in a build state
MeshOf(b) ==
  [vertices |-> b.vertices, edges |-> b.edges, faces |-> b.faces,
   corners |-> b.corners, halfedges |-> b.halfedges,
   boundaries |-> b.boundaries, generators |-> b.generators,
   vObj |-> b.vObj, eObj |-> b.eObj, fObj |-> b.fObj, hObj |-> b.hObj,
   cObj |-> b.cObj]

(* ------------------------------ inputs -------------------------------- *)
\* Triangles with three distinct valid indices into n positions
Triangles(n) ==
  {t \in (0..(n - 1)) \X (0..(n - 1)) \X (0..(n - 1)) :
     t[1] # t[2] /\ t[2] # t[3] /\ t[1] # t[3]}

\* polygonSoup.f of a sequence of triangles
RECURSIVE Flatten(_)
Flatten(ts) == IF ts = <<>> THEN <<>> ELSE Head(ts) \o Flatten(Tail(ts))

(* --------------------------- state machine ---------------------------- *)
VARIABLES
  mesh,         \* the Mesh object
  ret,          \* "none" before build is called, then the outcome of build
  alerts,       \* the messages passed to alert(), in order
  polygonSoup,  \* the argument of the last build: [v: number of positions, f: indices]
  iterators,    \* the iterator objects made by adjacent...() calls, in order
  cursors,      \* the objects returned by [Symbol.iterator](), in order
  earlier,      \* per earlier build of this Mesh, the numbers of objects it left
  operators,    \* the SimplicialComplexOperators object made for the mesh
  starCall,     \* the argument and the result of the last call of star
  sets,         \* the Set objects of the MeshSubsets, in order of creation
  call          \* the last call of an operator on a MeshSubset

vars ==
  <<mesh, ret, alerts, polygonSoup, iterators, cursors, earlier, operators, starCall,
    sets, call>>

\* No SimplicialComplexOperators object, no call of star
NoOperators == [made |-> FALSE, A0 |-> <<>>, A1 |-> <<>>]
EmptySubset == [vertices |-> {}, edges |-> {}, faces |-> {}]
NoStarCall == [called |-> FALSE, subset |-> EmptySubset, star |-> EmptySubset]

\* No MeshSubset object, no call on one
NoSubset == [vertices |-> 0, edges |-> 0, faces |-> 0]
NoCall ==
  [op |-> "none", argument |-> NoSubset, before |-> EmptySubset, value |-> NoSubset,
   changed |-> FALSE]

\* The soups of at most maxPositions positions and maxTriangles triangles
Soups(maxPositions, maxTriangles) ==
  UNION {{[v |-> n, f |-> Flatten(ts)] : ts \in [1..k -> Triangles(n)]} :
           n \in 0..maxPositions, k \in 0..maxTriangles}

\* Soups numbered by first use: position 0 is used first, and a position is
\* used only after every smaller one.  build treats positions alike (an
\* index is only compared with another), so every soup in which each
\* position is used is such a soup up to renaming of its positions.
NextUnused(u, x) == IF x = u THEN u + 1 ELSE u
Used(u, t) == NextUnused(NextUnused(NextUnused(u, t[1]), t[2]), t[3])
FirstUseTriangles(u, maxPositions) ==
  {t \in Triangles(IF u + 3 < maxPositions THEN u + 3 ELSE maxPositions) :
     /\ t[1] <= u
     /\ t[2] <= NextUnused(u, t[1])
     /\ t[3] <= NextUnused(NextUnused(u, t[1]), t[2])}

\* No edge of the last triangle of indices is an edge of two earlier ones
EdgeManifold(indices) ==
  \A p \in (Len(indices) - 3)..(Len(indices) - 1) :
     Cardinality({q \in 0..(Len(indices) - 4) :
                    SoupKey(indices, q) = SoupKey(indices, p)}) <= 1

\* A new Mesh and a soup read by the caller
Init ==
  /\ mesh = NewMesh
  /\ ret = "none"
  /\ alerts = <<>>
  /\ iterators = <<>>
  /\ cursors = <<>>
  /\ earlier = <<>>
  /\ operators = NoOperators
  /\ starCall = NoStarCall
  /\ sets = <<>>
  /\ call = NoCall
  /\ polygonSoup \in Soups(MaxPositions, MaxTriangles)

\* build leaves the Mesh as in its last state b, has shown b's alerts and
\* returns b.ret
Returns(b) ==
  /\ mesh' = MeshOf(b)
  /\ ret' = b.ret
  /\ alerts' = alerts \o b.alerts

\* mesh.build(polygonSoup) on the new Mesh
Build ==
  /\ ret = "none"
  /\ Returns(build(mesh, polygonSoup.v, polygonSoup.f))
  /\ UNCHANGED <<polygonSoup, iterators, cursors, earlier, operators, starCall, sets, call>>

Next == Build

\* The soup grows by k more triangles, then is handed over
RECURSIVE WideSoup(_, _, _)
WideSoup(indices, used, k) ==
  \/ polygonSoup = [v |-> used, f |-> indices]
  \/ /\ k > 0
     /\ \E t \in FirstUseTriangles(used, MaxPositionsWide) :
          /\ EdgeManifold(indices \o t)
          /\ WideSoup(indices \o t, Used(used, t), k - 1)

\* The triangle t or t traversed the other way round
Orientations(t) == {t, <<t[1], t[3], t[2]>>}

\* The Moebius band of 5 vertices and triangles {i, i+1, i+2} (mod 5), each
\* triangle in either orientation
MoebiusSoups ==
  {[v |-> 5, f |-> t0 \o t1 \o t2 \o t3 \o t4] :
     t0 \in Orientations(<<0, 1, 2>>), t1 \in Orientations(<<1, 2, 3>>),
     t2 \in Orientations(<<2, 3, 4>>), t3 \in Orientations(<<3, 4, 0>>),
     t4 \in Orientations(<<4, 0, 1>>)}

InitWide ==
  /\ mesh = NewMesh
  /\ ret = "none"
  /\ alerts = <<>>
  /\ iterators = <<>>
  /\ cursors = <<>>
  /\ earlier = <<>>
  /\ operators = NoOperators
  /\ starCall = NoStarCall
  /\ sets = <<>>
  /\ call = NoCall
  /\ \/ WideSoup(<<>>, 0, MaxTrianglesWide)
     \/ polygonSoup \in MoebiusSoups

Spec == Init /\ [][Next]_vars
SpecWide == InitWide /\ [][Next]_vars

\* The soups of both families
InitAnySoup == Init \/ InitWide
SpecAnySoup == InitAnySoup /\ [][Next]_vars

(* ----------------------- reading the built mesh ----------------------- *)
built == ret = "true"
twin(h) == mesh.hObj[h + 1].twin
next(h) == mesh.hObj[h + 1].next
prev(h) == mesh.hObj[h + 1].prev
vertex(h) == mesh.hObj[h + 1].vertex
edge(h) == mesh.hObj[h + 1].edge
face(h) == mesh.hObj[h + 1].face
\* The elements stored in an array of the mesh
Elements(array) == {array[k] : k \in DOMAIN array} \ {Undef}
Halfedges == Elements(mesh.halfedges)
Vertices == Elements(mesh.vertices)
Edges == Elements(mesh.edges)
Faces == Elements(mesh.faces)
Boundaries == Elements(mesh.boundaries)
\* The flat positions of the soup, and the directed edge at a position
Positions == 0..(Len(polygonSoup.f) - 1)
SoupEdge(p) ==
  <<polygonSoup.f[p + 1], polygonSoup.f[3 * (p \div 3) + ((p + 1) % 3) + 1]>>
\* The number of triangles that have the unordered pair key as an edge
TrianglesOn(key) ==
  Cardinality({p \in Positions : SoupKey(polygonSoup.f, p) = key})

(* ------------------------------ rebuilds ------------------------------ *)
\* Soups that build, closed or with a boundary, and soups that fail at each
\* of the points where build returns false
RebuildSoups ==
  {[v |-> 0, f |-> <<>>],
   [v |-> 3, f |-> <<0, 1, 2>>],
   [v |-> 3, f |-> <<0, 1, 2, 0, 2, 1>>],
   [v |-> 4, f |-> <<0, 1, 2>>],
   [v |-> 4, f |-> <<0, 1, 2, 0, 2, 3>>],
   [v |-> 4, f |-> <<0, 1, 2, 2, 1, 3>>],
   [v |-> 4, f |-> <<0, 1, 2, 0, 2, 3, 0, 3, 1>>],
   [v |-> 4, f |-> <<0, 1, 2, 0, 2, 3, 0, 3, 1, 1, 3, 2>>],
   [v |-> 4, f |-> <<0, 1, 2, 1, 0, 3, 0, 1, 3>>],
   [v |-> 5, f |-> <<0, 1, 2, 0, 3, 4>>],
   [v |-> 5, f |-> <<0, 1, 2, 0, 2, 3, 0, 1, 4>>],
   [v |-> 5, f |-> <<0, 1, 2, 0, 2, 3, 4, 3, 2>>]}

InitRebuild ==
  /\ mesh = NewMesh
  /\ ret = "none"
  /\ alerts = <<>>
  /\ iterators = <<>>
  /\ cursors = <<>>
  /\ earlier = <<>>
  /\ operators = NoOperators
  /\ starCall = NoStarCall
  /\ sets = <<>>
  /\ call = NoCall
  /\ polygonSoup \in RebuildSoups

\* The numbers of objects of each class that the builds of m have made
Objects(m) ==
  [v |-> Len(m.vObj), e |-> Len(m.eObj), f |-> Len(m.fObj), h |-> Len(m.hObj),
   c |-> Len(m.cObj)]

\* mesh.build(soup) on a Mesh whose build has returned or thrown
Rebuild(soup) ==
  /\ ret \notin {"none", "diverges"}
  /\ Len(earlier) < MaxRebuilds
  /\ Returns(build(mesh, soup.v, soup.f))
  /\ polygonSoup' = soup
  /\ earlier' = Append(earlier, Objects(mesh))
  /\ UNCHANGED <<iterators, cursors, operators, starCall, sets, call>>

NextRebuild == Build \/ \E soup \in RebuildSoups : Rebuild(soup)

SpecRebuild == InitRebuild /\ [][NextRebuild]_vars

(* -------------------- simplicial complex operators -------------------- *)
\* new Triplet(m, n), T.addEntry(x, i, j)
Triplet(m, n) == [m |-> m, n |-> n, entries |-> <<>>]
addEntry(T, x, i, j) == [T EXCEPT !.entries = Append(@, <<x, i, j>>)]

\* The sum of the values entered at (i, j)
RECURSIVE EntrySum(_, _, _)
EntrySum(entries, i, j) ==
  IF entries = <<>> THEN 0
  ELSE (IF Head(entries)[2] = i /\ Head(entries)[3] = j THEN Head(entries)[1] ELSE 0)
       + EntrySum(Tail(entries), i, j)

\* SparseMatrix.fromTriplet(T): the m by n matrix of the sums of the entries,
\* row i at position i + 1 and column j at position j + 1
fromTriplet(T) ==
  [i \in 1..T.m |-> [j \in 1..T.n |-> EntrySum(T.entries, i - 1, j - 1)]]

RECURSIVE Dot(_, _)
Dot(row, X) ==
  IF row = <<>> THEN 0 ELSE Head(row) * Head(X) + Dot(Tail(row), Tail(X))

\* A.timesDense(X) for a column vector X
timesDense(A, X) == [i \in DOMAIN A |-> Dot(A[i], X)]

\* permutation(n): lst after the swaps, choices[i + 1] being
\* Math.floor(Math.random() * (lst.length - i))
RECURSIVE Shuffle(_, _, _)
Shuffle(lst, choices, i) ==
  IF i >= Len(lst) THEN lst
  ELSE LET swapIndex == i + choices[i + 1]
       IN Shuffle([lst EXCEPT ![i + 1] = lst[swapIndex + 1],
                              ![swapIndex + 1] = lst[i + 1]],
                  choices, i + 1)

permutation(n, choices) == Shuffle([k \in 1..n |-> k - 1], choices, 0)

\* The values Math.floor(Math.random() * (n - i)) can take for i = 0 .. n - 1
SwapChoices(n) == {c \in [1..n -> 0..(n - 1)] : \A i \in 1..n : c[i] < n - (i - 1)}

\* Slip: index is not advanced
AssignIndexOnce(objs, array, indices, k) ==
  [x \in DOMAIN objs |->
     IF x - 1 \in {At(array, j) : j \in k..(Len(array) - 1)}
     THEN [objs[x] EXCEPT !.index = indices[k + 1]] ELSE objs[x]]

\* for (let x of array) { x.index = indices[index]; index++; }
RECURSIVE AssignIndex(_, _, _, _)
AssignIndex(objs, array, indices, k) ==
  IF k >= Len(array) THEN objs
  ELSE AssignIndex([objs EXCEPT ![At(array, k) + 1].index = indices[k + 1]],
                   array, indices, k + 1)

\* assignElementIndices(mesh), the else branch: vertices, edges and faces
\* get the indices of three random permutations
assignElementIndices(m, cv, ce, cf) ==
  [m EXCEPT !.vObj = AssignIndex(@, m.vertices, permutation(Len(m.vertices), cv), 0),
            !.eObj = AssignIndex(@, m.edges, permutation(Len(m.edges), ce), 0),
            !.fObj = AssignIndex(@, m.faces, permutation(Len(m.faces), cf), 0)]

\* Slip: only the base vertex of e.halfedge is entered
RECURSIVE VertexEdgeEntriesBase(_, _, _)
VertexEdgeEntriesBase(m, T, k) ==
  IF k >= Len(m.edges) THEN T
  ELSE LET e == At(m.edges, k)
           v1 == m.hObj[m.eObj[e + 1].halfedge + 1].vertex
       IN VertexEdgeEntriesBase(
            m, addEntry(T, 1, m.eObj[e + 1].index, m.vObj[v1 + 1].index), k + 1)

\* buildVertexEdgeAdjacencyMatrix, the loop from edge k of mesh.edges on
RECURSIVE VertexEdgeEntries(_, _, _)
VertexEdgeEntries(m, T, k) ==
  IF k >= Len(m.edges) THEN T
  ELSE LET e == At(m.edges, k)
           v1 == m.hObj[m.eObj[e + 1].halfedge + 1].vertex
           v2 == m.hObj[m.hObj[m.eObj[e + 1].halfedge + 1].next + 1].vertex
       IN VertexEdgeEntries(
            m,
            addEntry(addEntry(T, 1, m.eObj[e + 1].index, m.vObj[v1 + 1].index),
                     1, m.eObj[e + 1].index, m.vObj[v2 + 1].index),
            k + 1)

buildVertexEdgeAdjacencyMatrix(m) ==
  fromTriplet(VertexEdgeEntries(m, Triplet(Len(m.edges), Len(m.vertices)), 0))

\* for (let e of f.adjacentEdges()) T.addEntry(1, f.index, e.index)
RECURSIVE FaceEntries(_, _, _, _)
FaceEntries(m, T, f, es) ==
  IF es = <<>> THEN T
  ELSE FaceEntries(m, addEntry(T, 1, m.fObj[f + 1].index, m.eObj[Head(es) + 1].index),
                   f, Tail(es))

\* buildEdgeFaceAdjacencyMatrix, the loop from face k of mesh.faces on
RECURSIVE EdgeFaceEntries(_, _, _)
EdgeFaceEntries(m, T, k) ==
  IF k >= Len(m.faces) THEN T
  ELSE LET f == At(m.faces, k)
           es == ForOf(m.hObj, "FaceEdge", m.fObj[f + 1].halfedge, TRUE).values
       IN EdgeFaceEntries(m, FaceEntries(m, T, f, es), k + 1)

buildEdgeFaceAdjacencyMatrix(m) ==
  fromTriplet(EdgeFaceEntries(m, Triplet(Len(m.faces), Len(m.edges)), 0))

\* buildVertexVector, buildEdgeVector: zeros(n, 1) with a 1 at every index
\* of the set
IndicatorVector(n, indices) == [i \in 1..n |-> IF (i - 1) \in indices THEN 1 ELSE 0]
buildVertexVector(m, subset) == IndicatorVector(Len(m.vertices), subset.vertices)
buildEdgeVector(m, subset) == IndicatorVector(Len(m.edges), subset.edges)

\* The indices i at which the column vector is not 0
NonZero(vector) == {i \in 0..(Len(vector) - 1) : vector[i + 1] # 0}

\* Slip: the faces are those of the edges the subset had
starOfOwnEdges(ops, m, subset) ==
  [subset EXCEPT
     !.edges = @ \cup NonZero(timesDense(ops.A0, buildVertexVector(m, subset))),
     !.faces = @ \cup NonZero(timesDense(ops.A1, buildEdgeVector(m, subset)))]

\* star(subset)
star(ops, m, subset) ==
  LET edgeVector == timesDense(ops.A0, buildVertexVector(m, subset))
      withEdges == [subset EXCEPT !.edges = @ \cup NonZero(edgeVector)]
      faceVector == timesDense(ops.A1, buildEdgeVector(m, withEdges))
  IN [withEdges EXCEPT !.faces = @ \cup NonZero(faceVector)]

\* buildFaceVector
buildFaceVector(m, subset) == IndicatorVector(Len(m.faces), subset.faces)

\* A.transpose() of a matrix A of n columns
transpose(A, n) == [j \in 1..n |-> [i \in 1..Len(A) |-> A[i][j]]]

\* MeshSubset.addVertices, addEdges, addFaces, deleteSubset on the contents
addVertices(subset, vertices) == [subset EXCEPT !.vertices = @ \cup vertices]
addEdges(subset, edges) == [subset EXCEPT !.edges = @ \cup edges]
addFaces(subset, faces) == [subset EXCEPT !.faces = @ \cup faces]
deleteSubset(this, subset) ==
  [vertices |-> this.vertices \ subset.vertices,
   edges |-> this.edges \ subset.edges,
   faces |-> this.faces \ subset.faces]

\* MeshSubset.setsEqual, MeshSubset.equals
setsEqual(as, bs) ==
  IF Cardinality(as) # Cardinality(bs) THEN FALSE ELSE \A a \in as : a \in bs
equals(this, subset) ==
  /\ setsEqual(this.vertices, subset.vertices)
  /\ setsEqual(this.edges, subset.edges)
  /\ setsEqual(this.faces, subset.faces)

\* Slip: the vertices are not added
closureKeepVertices(ops, m, withEdges) == withEdges

\* closure, lines 197-208: the endpoints of the edges of the copy, which has
\* the added edges
closureVertices(ops, m, withEdges) ==
  addVertices(withEdges,
              NonZero(timesDense(transpose(ops.A0, Len(m.vertices)),
                                 buildEdgeVector(m, withEdges))))

\* closure(subset)
closure(ops, m, subset) ==
  closureVertices(ops, m,
                  addEdges(subset,
                           NonZero(timesDense(transpose(ops.A1, Len(m.edges)),
                                              buildFaceVector(m, subset)))))

\* link(subset)
link(ops, m, subset) ==
  deleteSubset(closure(ops, m, star(ops, m, subset)),
               star(ops, m, closure(ops, m, subset)))

\* isComplex(subset)
isComplex(ops, m, subset) == equals(subset, closure(ops, m, subset))

\* for (i ...) if (X.get(i, 0) == 0 && vs.get(i, 0) != 0) return -1
HasUncovered(X, vs) == \E i \in DOMAIN vs : X[i] = 0 /\ vs[i] # 0

\* isPureComplex(subset)
isPureComplex(ops, m, subset) ==
  IF ~isComplex(ops, m, subset) THEN -1
  ELSE IF Cardinality(subset.faces) > 0
  THEN IF HasUncovered(
            timesDense(transpose(ops.A0, Len(m.vertices)),
                       timesDense(transpose(ops.A1, Len(m.edges)),
                                  buildFaceVector(m, subset))),
            buildVertexVector(m, subset))
       THEN -1 ELSE 2
  ELSE IF Cardinality(subset.edges) > 0
  THEN IF HasUncovered(timesDense(transpose(ops.A0, Len(m.vertices)),
                                  buildEdgeVector(m, subset)),
                       buildVertexVector(m, subset))
       THEN -1 ELSE 1
  ELSE 0

\* Slip: every index at which the column vector is not 0
EqualsOneOrMore(vector) == NonZero(vector)

\* The indices i at which the column vector is 1
EqualsOne(vector) == {i \in 0..(Len(vector) - 1) : vector[i + 1] = 1}

\* boundary, lines 280-296: the subset that boundary closes
boundaryCells(ops, m, subset) ==
  IF Cardinality(subset.faces) > 0
  THEN addEdges(EmptySubset,
                EqualsOne(timesDense(transpose(ops.A1, Len(m.edges)),
                                     buildFaceVector(m, subset))))
  ELSE IF Cardinality(subset.edges) > 0
  THEN addVertices(EmptySubset,
                   EqualsOne(timesDense(transpose(ops.A0, Len(m.vertices)),
                                        buildEdgeVector(m, subset))))
  ELSE EmptySubset

\* boundary(subset)
boundary(ops, m, subset) == closure(ops, m, boundaryCells(ops, m, subset))

\* Two triangles around one edge, closed; two triangles that share an edge
StarSoups ==
  {[v |-> 3, f |-> <<0, 1, 2, 0, 2, 1>>],
   [v |-> 4, f |-> <<0, 1, 2, 0, 2, 3>>]}

InitStar ==
  /\ mesh = NewMesh
  /\ ret = "none"
  /\ alerts = <<>>
  /\ iterators = <<>>
  /\ cursors = <<>>
  /\ earlier = <<>>
  /\ operators = NoOperators
  /\ starCall = NoStarCall
  /\ sets = <<>>
  /\ call = NoCall
  /\ polygonSoup \in StarSoups

\* The constructor after assignElementIndices has left the mesh as m
Constructed(m) ==
  /\ mesh' = m
  /\ operators' = [made |-> TRUE,
                    A0 |-> buildVertexEdgeAdjacencyMatrix(m),
                    A1 |-> buildEdgeFaceAdjacencyMatrix(m)]

\* new SimplicialComplexOperators(mesh) for the mesh that has been built
NewOperators ==
  /\ ret = "true"
  /\ ~operators.made
  /\ \E cv \in SwapChoices(Len(mesh.vertices)), ce \in SwapChoices(Len(mesh.edges)),
        cf \in SwapChoices(Len(mesh.faces)) :
        Constructed(assignElementIndices(mesh, cv, ce, cf))
  /\ UNCHANGED <<ret, alerts, polygonSoup, iterators, cursors, earlier, starCall, sets, call>>

\* The simplices of the mesh by dimension and index, and no simplex
Simplices ==
  ({0} \X (0..(Len(mesh.vertices) - 1))) \cup ({1} \X (0..(Len(mesh.edges) - 1)))
    \cup ({2} \X (0..(Len(mesh.faces) - 1))) \cup {<<3, 0>>}

\* The MeshSubset of the simplices chosen by choice
SubsetOf(choice) ==
  [vertices |-> {choice[k][2] : k \in {n \in DOMAIN choice : choice[n][1] = 0}},
   edges |-> {choice[k][2] : k \in {n \in DOMAIN choice : choice[n][1] = 1}},
   faces |-> {choice[k][2] : k \in {n \in DOMAIN choice : choice[n][1] = 2}}]

\* A choice of n simplices in order of dimension and index; every subset of
\* at most n simplices is the MeshSubset of one
Ordered(choice) ==
  \A k \in 1..(Len(choice) - 1) :
     \/ choice[k][1] < choice[k + 1][1]
     \/ choice[k][1] = choice[k + 1][1] /\ choice[k][2] <= choice[k + 1][2]

\* operators.star(subset); star reads the operators and the mesh and changes
\* neither, so one call is followed
Star(subset) ==
  /\ operators.made
  /\ ~starCall.called
  /\ starCall' = [called |-> TRUE, subset |-> subset,
                   star |-> star(operators, mesh, subset)]
  /\ UNCHANGED <<mesh, ret, alerts, polygonSoup, iterators, cursors, earlier, operators, sets, call>>

NextStar ==
  \/ Build
  \/ NewOperators
  \/ \E choice \in [1..MaxSubsetSize -> Simplices] :
        Ordered(choice) /\ Star(SubsetOf(choice))

SpecStar == InitStar /\ [][NextStar]_vars

(* ------------------- operators on MeshSubset objects ------------------ *)
\* A MeshSubset object holds three Set objects, named here by their position
\* in the sequence of the Set objects made so far.  x and the results below
\* are records [sets, value]: the Set objects and a MeshSubset or a value
\* returned.
Contents(h, subset) ==
  [vertices |-> h[subset.vertices], edges |-> h[subset.edges],
   faces |-> h[subset.faces]]

\* new MeshSubset(new Set(vertices), new Set(edges), new Set(faces))
NewMeshSubset(h, contents) ==
  [sets |-> h \o <<contents.vertices, contents.edges, contents.faces>>,
   value |-> [vertices |-> Len(h) + 1, edges |-> Len(h) + 2, faces |-> Len(h) + 3]]

\* Slip: the copy holds the Set objects of the subset
deepCopyShared(h, subset) == [sets |-> h, value |-> subset]

\* MeshSubset.deepCopy(subset)
deepCopy(h, subset) == NewMeshSubset(h, Contents(h, subset))

\* The adds and deletes of a method on the MeshSubset x.value, which leave
\* it with the contents given
Store(x, contents) ==
  [x EXCEPT !.sets = [k \in DOMAIN x.sets |->
                        IF k = x.value.faces THEN contents.faces
                        ELSE IF k = x.value.edges THEN contents.edges
                        ELSE IF k = x.value.vertices THEN contents.vertices
                        ELSE x.sets[k]]]

\* star and closure after subset = MeshSubset.deepCopy(subset)
starOfCopy(ops, m, x) == Store(x, star(ops, m, Contents(x.sets, x.value)))
closureOfCopy(ops, m, x) == Store(x, closure(ops, m, Contents(x.sets, x.value)))

\* this.star(subset), this.closure(subset)
starOf(ops, m, x) == starOfCopy(ops, m, deepCopy(x.sets, x.value))
closureOf(ops, m, x) == closureOfCopy(ops, m, deepCopy(x.sets, x.value))

\* closureStar.deleteSubset(starClosure); return closureStar
linkDelete(closureStar, x) ==
  [sets |-> Store([sets |-> x.sets, value |-> closureStar],
                  deleteSubset(Contents(x.sets, closureStar),
                               Contents(x.sets, x.value))).sets,
   value |-> closureStar]

\* link after closureStar = this.closure(this.star(subset))
linkOfClosureStar(ops, m, x, subset) ==
  linkDelete(x.value,
             starOf(ops, m, closureOf(ops, m, [sets |-> x.sets, value |-> subset])))

\* this.link(subset)
linkOf(ops, m, x) ==
  linkOfClosureStar(ops, m, closureOf(ops, m, starOf(ops, m, x)), x.value)

\* this.boundary(subset): a new MeshSubset gets the edges or the vertices,
\* and its closure is returned
boundaryOf(ops, m, x) ==
  closureOf(ops, m,
            NewMeshSubset(x.sets, boundaryCells(ops, m, Contents(x.sets, x.value))))

\* this.isComplex(subset), this.isPureComplex(subset): the closure that
\* isComplex takes is a new MeshSubset
isComplexOf(ops, m, x) ==
  [sets |-> closureOf(ops, m, x).sets,
   value |-> isComplex(ops, m, Contents(x.sets, x.value))]
isPureComplexOf(ops, m, x) ==
  [sets |-> closureOf(ops, m, x).sets,
   value |-> isPureComplex(ops, m, Contents(x.sets, x.value))]

\* The methods that take a MeshSubset, and those that return one
Methods == {"star", "closure", "link", "boundary", "isComplex", "isPureComplex"}
SubsetMethods == {"star", "closure", "link", "boundary"}

\* operators.<op>(x.value)
Apply(op, ops, m, x) ==
  CASE op = "star" -> starOf(ops, m, x)
    [] op = "closure" -> closureOf(ops, m, x)
    [] op = "link" -> linkOf(ops, m, x)
    [] op = "boundary" -> boundaryOf(ops, m, x)
    [] op = "isComplex" -> isComplexOf(ops, m, x)
    [] op = "isPureComplex" -> isPureComplexOf(ops, m, x)

\* Two triangles around one edge, closed; three triangles around a vertex
\* with a boundary of three edges
ComplexSoups ==
  {[v |-> 3, f |-> <<0, 1, 2, 0, 2, 1>>],
   [v |-> 4, f |-> <<0, 1, 2, 0, 2, 3, 0, 3, 1>>]}

InitComplex ==
  /\ mesh = NewMesh
  /\ ret = "none"
  /\ alerts = <<>>
  /\ iterators = <<>>
  /\ cursors = <<>>
  /\ earlier = <<>>
  /\ operators = NoOperators
  /\ starCall = NoStarCall
  /\ sets = <<>>
  /\ call = NoCall
  /\ polygonSoup \in ComplexSoups

\* The values of Math.floor(Math.random() * (n - i)) when only the first
\* MaxShuffled of them are not 0
FewSwapChoices(n) ==
  {c \in SwapChoices(n) : \A i \in 1..n : i > MaxShuffled => c[i] = 0}

\* new SimplicialComplexOperators(mesh) with these values of Math.random()
NewOperatorsFew ==
  /\ ret = "true"
  /\ ~operators.made
  /\ \E cv \in FewSwapChoices(Len(mesh.vertices)),
        ce \in FewSwapChoices(Len(mesh.edges)),
        cf \in FewSwapChoices(Len(mesh.faces)) :
        Constructed(assignElementIndices(mesh, cv, ce, cf))
  /\ UNCHANGED <<ret, alerts, polygonSoup, iterators, cursors, earlier, starCall, sets, call>>

\* The call has left the Set objects and returned the value of r
Returned(op, r) ==
  /\ sets' = r.sets
  /\ call' = [op |-> op,
              argument |-> [vertices |-> 1, edges |-> 2, faces |-> 3],
              before |-> Contents(r.sets, [vertices |-> 1, edges |-> 2, faces |-> 3]),
              value |-> r.value,
              changed |-> FALSE]

\* operators.<op>(S) for a new MeshSubset S of the contents given
Call(op, contents) ==
  /\ operators.made
  /\ call.op = "none"
  /\ Returned(op, Apply(op, operators, mesh, NewMeshSubset(<<>>, contents)))
  /\ UNCHANGED <<mesh, ret, alerts, polygonSoup, iterators, cursors, earlier, operators,
                 starCall>>

\* The subsets handed over: at most MaxSeed simplices, or the closure of these
Handed(choice, closed) ==
  IF closed THEN closure(operators, mesh, SubsetOf(choice)) ELSE SubsetOf(choice)

\* One call on the operators, of any method on any of the subsets
CallAny ==
  /\ operators.made
  /\ call.op = "none"
  /\ \E choice \in [1..MaxSeed -> Simplices] :
        /\ Ordered(choice)
        /\ \E op \in Methods, closed \in BOOLEAN : Call(op, Handed(choice, closed))

NextComplex == Build \/ NewOperatorsFew \/ CallAny

SpecComplex == InitComplex /\ [][NextComplex]_vars

\* Two triangles around one edge, closed
ChangeSoups == {[v |-> 3, f |-> <<0, 1, 2, 0, 2, 1>>]}

InitChange ==
  /\ mesh = NewMesh
  /\ ret = "none"
  /\ alerts = <<>>
  /\ iterators = <<>>
  /\ cursors = <<>>
  /\ earlier = <<>>
  /\ operators = NoOperators
  /\ starCall = NoStarCall
  /\ sets = <<>>
  /\ call = NoCall
  /\ polygonSoup \in ChangeSoups

\* The Set object of the MeshSubset that holds the simplices of a dimension
SetOf(subset, dimension) ==
  CASE dimension = 0 -> subset.vertices
    [] dimension = 1 -> subset.edges
    [] dimension = 2 -> subset.faces

\* result.addVertex(i), addEdge(i), addFace(i), deleteVertex(i),
\* deleteEdge(i) or deleteFace(i) on the MeshSubset the call has returned
ChangeResult(simplex, add) ==
  /\ call.op \in SubsetMethods
  /\ ~call.changed
  /\ simplex[1] < 3
  /\ sets' = [sets EXCEPT ![SetOf(call.value, simplex[1])] =
                IF add THEN @ \cup {simplex[2]} ELSE @ \ {simplex[2]}]
  /\ call' = [call EXCEPT !.changed = TRUE]
  /\ UNCHANGED <<mesh, ret, alerts, polygonSoup, iterators, cursors, earlier, operators,
                 starCall>>

NextChange ==
  \/ Build
  \/ NewOperatorsFew
  \/ CallAny
  \/ \E simplex \in Simplices, add \in BOOLEAN : ChangeResult(simplex, add)

SpecChange == InitChange /\ [][NextChange]_vars

(* ----------------------------- traversals ----------------------------- *)
\* Two triangles that share an edge; three triangles around position 0
TraversalSoups ==
  {[v |-> 4, f |-> <<0, 1, 2, 0, 2, 3>>],
   [v |-> 4, f |-> <<0, 1, 2, 0, 2, 3, 0, 3, 1>>]}

InitTraversal ==
  /\ mesh = NewMesh
  /\ ret = "none"
  /\ alerts = <<>>
  /\ iterators = <<>>
  /\ cursors = <<>>
  /\ earlier = <<>>
  /\ operators = NoOperators
  /\ starCall = NoStarCall
  /\ sets = <<>>
  /\ call = NoCall
  /\ polygonSoup \in TraversalSoups

FaceKinds == {"FaceVertex", "FaceEdge", "FaceFace", "FaceHalfedge", "FaceCorner"}

\* this.halfedge of the vertex or face the iterators of a class are made from
ElementHalfedge(kind, element) ==
  IF kind \in VertexKinds THEN mesh.vObj[element + 1].halfedge
  ELSE mesh.fObj[element + 1].halfedge

\* element.adjacent...(ccw): a new iterator object of the class; element
\* records which vertex or face made it.  The caller makes its iterators
\* from one vertex or one face.
Adjacent(kind, element, ccw) ==
  /\ ret = "true"
  /\ Len(iterators) < MaxIterators
  /\ element \in (IF kind \in VertexKinds THEN Elements(mesh.vertices)
                  ELSE Elements(mesh.faces) \cup Elements(mesh.boundaries))
  /\ \A i \in DOMAIN iterators :
        /\ iterators[i].element = element
        /\ (iterators[i].kind \in VertexKinds) = (kind \in VertexKinds)
  /\ LET halfedge == IteratorHalfedge(mesh.hObj, kind, ElementHalfedge(kind, element))
     IN /\ halfedge \notin {Throws, Diverges}
        /\ iterators' = Append(iterators, [kind |-> kind, element |-> element,
                                            halfedge |-> halfedge, ccw |-> ccw])
  /\ UNCHANGED <<mesh, ret, alerts, polygonSoup, cursors, earlier, operators, starCall, sets, call>>

\* iterator[Symbol.iterator](): a new cursor, as a for...of loop obtains it
SymbolIterator(i) ==
  /\ Len(cursors) < MaxCursors
  /\ cursors' = Append(cursors,
                        [of |-> i,
                         state |-> NewIterator(iterators[i].halfedge, iterators[i].ccw),
                         yielded |-> <<>>, done |-> FALSE, threw |-> FALSE])
  /\ UNCHANGED <<mesh, ret, alerts, polygonSoup, iterators, earlier, operators, starCall, sets, call>>

\* Slip: current and justStarted are kept in the iterator object, which
\* every cursor made from it shares
AfterNextShared(cs, c, r) ==
  [k \in DOMAIN cs |->
     IF k = c
     THEN [cs[k] EXCEPT !.state = r.it,
                        !.yielded = IF r.done \/ r.throws \/ r.diverges THEN @
                                    ELSE Append(@, r.value),
                        !.done = r.done,
                        !.threw = r.throws \/ r.diverges]
     ELSE IF cs[k].of = cs[c].of THEN [cs[k] EXCEPT !.state = r.it]
     ELSE cs[k]]

\* The cursors after next() on cursor c has returned r: next() assigns to
\* this.current and this.justStarted of its own cursor only
AfterNext(cs, c, r) ==
  [cs EXCEPT ![c] = [@ EXCEPT !.state = r.it,
                              !.yielded = IF r.done \/ r.throws \/ r.diverges THEN @
                                          ELSE Append(@, r.value),
                              !.done = r.done,
                              !.threw = r.throws \/ r.diverges]]

\* cursor.next(), called by a for...of loop until it returns done
CursorNext(c) ==
  /\ ~cursors[c].done /\ ~cursors[c].threw
  /\ cursors' = AfterNext(cursors, c,
                           IteratorNext(mesh.hObj, iterators[cursors[c].of].kind,
                                        cursors[c].state))
  /\ UNCHANGED <<mesh, ret, alerts, polygonSoup, iterators, earlier, operators, starCall, sets, call>>

NextTraversal ==
  \/ Build
  \/ \E kind \in VertexKinds \cup FaceKinds, ccw \in BOOLEAN :
        \E element \in 0..Len(mesh.hObj) : Adjacent(kind, element, ccw)
  \/ \E i \in DOMAIN iterators : SymbolIterator(i)
  \/ \E c \in DOMAIN cursors : CursorNext(c)

SpecTraversal == InitTraversal /\ [][NextTraversal]_vars

(* -------------------------------- C1 ---------------------------------- *)
\* C1: after a build that returned true every halfedge and its twin are
\* distinct mutual twins on the same edge, every edge is the edge of its
\* stored halfedge, and every edge has exactly two halfedges.
C1_MutualTwins ==
  built =>
    /\ \A h \in Halfedges :
         /\ twin(twin(h)) = h
         /\ twin(h) # h
         /\ edge(twin(h)) = edge(h)
    /\ \A e \in Edges :
         /\ edge(mesh.eObj[e + 1].halfedge) = e
         /\ Cardinality({h \in Halfedges : edge(h) = e}) = 2

\* A built mesh with an interior edge and a boundary edge
C1_Witness ==
  /\ built
  /\ \E h \in Halfedges : ~mesh.hObj[h + 1].onBoundary /\ ~mesh.hObj[twin(h) + 1].onBoundary
  /\ \E h \in Halfedges : mesh.hObj[h + 1].onBoundary

(* -------------------------------- C2 ---------------------------------- *)
\* The manual walk of the tests: h0, step(h0), step(step(h0)), ... up to the
\* return to h0.  via names the step: "twin.next", "prev.twin", "next" or
\* "prev".  returns is FALSE when the walk does not come back to h0.
ManualStep(via, h) ==
  CASE via = "twin.next" -> next(twin(h))
    [] via = "prev.twin" -> twin(prev(h))
    [] via = "next" -> next(h)
    [] via = "prev" -> prev(h)

RECURSIVE ManualWalkFrom(_, _, _, _, _)
ManualWalkFrom(via, h0, h, visited, fuel) ==
  LET h1 == ManualStep(via, h)
  IN IF h1 = h0 THEN [visited |-> Append(visited, h), returns |-> TRUE]
     ELSE IF fuel = 0 THEN [visited |-> Append(visited, h), returns |-> FALSE]
     ELSE ManualWalkFrom(via, h0, h1, Append(visited, h), fuel - 1)

ManualWalk(via, h0) == ManualWalkFrom(via, h0, h0, <<>>, Len(mesh.hObj))

\* No value occurs twice in sequence s
Injective(s) == \A i, j \in DOMAIN s : s[i] = s[j] => i = j
Range(s) == {s[k] : k \in DOMAIN s}

\* The walk h <- h.twin.next from v.halfedge returns to v.halfedge and
\* visits exactly the halfedges based at v, each once; v.degree() is their
\* number
OneRing(v) ==
  LET w == ManualWalk("twin.next", mesh.vObj[v + 1].halfedge)
      based == {h \in Halfedges : vertex(h) = v}
  IN /\ w.returns
     /\ Injective(w.visited)
     /\ Range(w.visited) = based
     /\ degree(mesh, v) = Cardinality(based)

\* Two triangles of the soup traverse an edge in the same direction
SameDirection == \E p, q \in Positions : p # q /\ SoupEdge(p) = SoupEdge(q)

\* C2: after a build that returned true, for every vertex v the walk
\* h <- h.twin.next from v.halfedge returns to v.halfedge and visits exactly
\* the halfedges based at v, each once; v.degree() is their number.
C2_OneRing == built => \A v \in Vertices : OneRing(v)

\* The one-ring property of the meshes built from soups in which no two
\* triangles traverse an edge in the same direction
OneRingOfConsistentSoups ==
  (built /\ ~SameDirection) => \A v \in Vertices : OneRing(v)

\* A built mesh with a boundary vertex of degree 3 and an interior vertex
C2_Witness ==
  /\ built
  /\ \E v \in Vertices : onBoundary(mesh, v) /\ degree(mesh, v) = 3
  /\ \E v \in Vertices : ~onBoundary(mesh, v)

(* -------------------------------- C3 ---------------------------------- *)
\* C3: in a mesh built successfully every twin runs in the opposite
\* direction (h.twin.vertex = h.next.vertex), and no soup in which two
\* triangles traverse a shared edge in the same direction is built
\* successfully.
C3_OppositeTwins ==
  /\ built => \A h \in Halfedges : vertex(twin(h)) = vertex(next(h))
  /\ (ret # "none" /\ SameDirection) => ~built

\* A Moebius band, in which no edge is in three triangles, is rejected
C3_Witness ==
  /\ ret = "false"
  /\ SameDirection
  /\ polygonSoup \in MoebiusSoups

(* -------------------------------- C4 ---------------------------------- *)
\* Some unordered vertex pair is an edge of three or more triangles
NonManifoldSoupEdge ==
  \E p \in Positions : TrianglesOn(SoupKey(polygonSoup.f, p)) >= 3

\* C4: build returns false for every soup in which some unordered vertex
\* pair is an edge of three or more triangles.
C4_NonManifoldEdge ==
  (ret # "none" /\ NonManifoldSoupEdge) => ret = "false"

\* Three triangles on one edge; the third one met is the last of the soup
C4_Witness ==
  /\ ret = "false"
  /\ Len(polygonSoup.f) = 9
  /\ TrianglesOn(SoupKey(polygonSoup.f, 8)) = 3
  /\ alerts = <<"Mesh has non-manifold edges!">>

(* -------------------------------- C5 ---------------------------------- *)
\* The triangles of the soup, by number, and the positions a triangle joins
SoupTriangles == 0..((Len(polygonSoup.f) \div 3) - 1)
CornersOf(t) ==
  {polygonSoup.f[3 * t + 1], polygonSoup.f[3 * t + 2], polygonSoup.f[3 * t + 3]}
TrianglesAt(v) == {t \in SoupTriangles : v \in CornersOf(t)}

\* The triangles at v reached from those of S across edges that end at v
RECURSIVE Fan(_, _)
Fan(v, S) ==
  LET S1 == S \cup {t \in TrianglesAt(v) :
                      \E s \in S : (CornersOf(s) \cap CornersOf(t)) \ {v} # {}}
  IN IF S1 = S THEN S ELSE Fan(v, S1)

\* The triangles at some vertex form more than one fan
Bowtie ==
  \E v \in 0..(polygonSoup.v - 1) :
    \E t \in TrianglesAt(v) : Fan(v, {t}) # TrianglesAt(v)

\* C5: build returns false for every soup in which the triangles at some
\* vertex form more than one fan.
C5_BowtieRejected ==
  (ret # "none" /\ Bowtie) => ret = "false"

\* Two pairs of triangles that touch in one vertex only: no face is
\* isolated and no alert is raised, the vertex check alone rejects
C5_Witness ==
  /\ ret = "false"
  /\ Bowtie
  /\ alerts = <<>>
  /\ ~SameDirection

(* -------------------------------- C6 ---------------------------------- *)
\* Some triangle shares none of its three edges with another triangle
IsolatedTriangle ==
  \E t \in SoupTriangles :
    \A p \in (3 * t)..(3 * t + 2) : TrianglesOn(SoupKey(polygonSoup.f, p)) = 1

\* C6: build returns false for every soup with a triangle all of whose edges
\* are boundary edges; a soup of a single triangle is such a soup.
C6_IsolatedFace ==
  /\ (ret # "none" /\ IsolatedTriangle) => ret = "false"
  /\ (ret # "none" /\ Len(polygonSoup.f) = 3) => ret = "false"

\* A lone triangle beside two triangles that share an edge is reported
C6_Witness ==
  /\ ret = "false"
  /\ IsolatedTriangle
  /\ Len(polygonSoup.f) = 9
  /\ alerts = <<"Mesh has isolated faces!">>

(* -------------------------------- C7 ---------------------------------- *)
\* Some position of the soup is referenced by no triangle
UnreferencedPosition ==
  \E v \in 0..(polygonSoup.v - 1) : TrianglesAt(v) = {}

\* C7: for every soup with an unreferenced position and no edge in three
\* triangles build returns false by the isolated-vertex check, and no build
\* ends with an exception.
C7_IsolatedVertex ==
  /\ ret # "throws"
  /\ (ret # "none" /\ UnreferencedPosition /\ ~NonManifoldSoupEdge) =>
        (ret = "false" /\ alerts = <<"Mesh has isolated vertices!">>)

\* A closed pair of triangles, which the later checks accept, and a fourth
\* position that no triangle uses
C7_Witness ==
  /\ ret = "false"
  /\ UnreferencedPosition
  /\ ~IsolatedTriangle /\ ~NonManifoldSoupEdge /\ ~SameDirection
  /\ Len(polygonSoup.f) = 6
  /\ alerts = <<"Mesh has isolated vertices!">>

(* -------------------------------- C8 ---------------------------------- *)
\* The diagnostics build can raise
Diagnostics ==
  {"Mesh has non-manifold edges!", "Mesh has isolated vertices!",
   "Mesh has isolated faces!"}

\* C8: every build that returns false has raised a diagnostic naming the
\* kind of violation before it returns.
C8_Diagnostics ==
  ret = "false" => (alerts # <<>> /\ \A k \in DOMAIN alerts : alerts[k] \in Diagnostics)

(* -------------------------------- C9 ---------------------------------- *)
\* The open quad: 4 positions, triangles (0,1,2) and (0,2,3)
OpenQuad == [v |-> 4, f |-> <<0, 1, 2, 0, 2, 3>>]

\* C9: building the open quad returns true and yields 4 vertices, 5 edges,
\* 2 faces, one boundary loop with a cycle of 4 halfedges, Euler
\* characteristic 1, every vertex on the boundary, degree 3 at positions 0
\* and 2 and degree 2 at positions 1 and 3.
C9_OpenQuad ==
  (ret # "none" /\ polygonSoup = OpenQuad) =>
    /\ built
    /\ Cardinality(Vertices) = 4 /\ Len(mesh.vertices) = 4
    /\ Cardinality(Edges) = 5 /\ Len(mesh.edges) = 5
    /\ Cardinality(Faces) = 2 /\ Len(mesh.faces) = 2
    /\ Cardinality(Boundaries) = 1 /\ Len(mesh.boundaries) = 1
    /\ \A f \in Boundaries :
         LET w == ManualWalk("next", mesh.fObj[f + 1].halfedge)
         IN /\ isBoundaryLoop(mesh, f)
            /\ w.returns /\ Len(w.visited) = 4 /\ Injective(w.visited)
            /\ \A k \in DOMAIN w.visited :
                 mesh.hObj[w.visited[k] + 1].onBoundary /\ face(w.visited[k]) = f
    /\ eulerCharacteristic(mesh) = 1
    /\ \A k \in 0..3 : onBoundary(mesh, At(mesh.vertices, k))
    /\ degree(mesh, At(mesh.vertices, 0)) = 3
    /\ degree(mesh, At(mesh.vertices, 2)) = 3
    /\ degree(mesh, At(mesh.vertices, 1)) = 2
    /\ degree(mesh, At(mesh.vertices, 3)) = 2

\* The open quad has been built
C9_Witness == built /\ polygonSoup = OpenQuad

(* -------------------------------- C10 --------------------------------- *)
\* What the tests compare with the value an iterator yields at halfedge h
ManualValue(kind, h) ==
  CASE kind = "VertexVertex" -> vertex(twin(h))
    [] kind = "VertexEdge" -> edge(h)
    [] kind = "VertexHalfedge" -> h
    [] kind = "FaceVertex" -> vertex(h)
    [] kind = "FaceEdge" -> edge(h)
    [] kind = "FaceHalfedge" -> h

\* The first element of s followed by the others in reverse order
FirstThenReversed(s) ==
  [k \in DOMAIN s |-> IF k = 1 THEN s[1] ELSE s[Len(s) - k + 2]]

\* C10: for every vertex v of a mesh built successfully adjacentVertices,
\* adjacentEdges and adjacentHalfedges yield v.degree() elements in either
\* order, the CCW iteration is the manual walk by twin.next, the CW
\* iteration the manual walk by prev.twin, and the CW sequence is the first
\* CCW element followed by the other CCW elements reversed.
C10_VertexIterators ==
  built =>
    \A v \in Vertices :
      \A kind \in {"VertexVertex", "VertexEdge", "VertexHalfedge"} :
        LET h0 == mesh.vObj[v + 1].halfedge
            ccw == ForOf(mesh.hObj, kind, h0, TRUE)
            cw == ForOf(mesh.hObj, kind, h0, FALSE)
            wccw == ManualWalk("twin.next", h0)
            wcw == ManualWalk("prev.twin", h0)
        IN /\ ccw.ends /\ cw.ends /\ wccw.returns /\ wcw.returns
           /\ Len(ccw.values) = degree(mesh, v)
           /\ Len(cw.values) = degree(mesh, v)
           /\ ccw.values = [k \in DOMAIN wccw.visited |-> ManualValue(kind, wccw.visited[k])]
           /\ cw.values = [k \in DOMAIN wcw.visited |-> ManualValue(kind, wcw.visited[k])]
           /\ cw.values = FirstThenReversed(ccw.values)

\* A built mesh with a vertex of degree 4 whose CW order differs from its
\* CCW order
C10_Witness ==
  /\ built
  /\ \E v \in Vertices :
       /\ degree(mesh, v) = 4
       /\ ForOf(mesh.hObj, "VertexVertex", mesh.vObj[v + 1].halfedge, FALSE).values
            # ForOf(mesh.hObj, "VertexVertex", mesh.vObj[v + 1].halfedge, TRUE).values

(* -------------------------------- C11 --------------------------------- *)
\* The values the tests expect of an iteration of kind from h0: those of the
\* manual walk by via
ManualValues(kind, via, h0) ==
  LET w == ManualWalk(via, h0)
  IN [k \in DOMAIN w.visited |-> ManualValue(kind, w.visited[k])]

\* C11: for every interior face and boundary loop f of a mesh built
\* successfully next and prev are inverse to each other on the cycle of
\* f.halfedge, and adjacentVertices, adjacentEdges and adjacentHalfedges
\* yield, in either direction, as many elements as the cycle has halfedges
\* (3 for an interior face), step for step those of the manual walk by next
\* (CCW) or prev (CW).
C11_FaceIterators ==
  built =>
    \A f \in Faces \cup Boundaries :
      LET h0 == mesh.fObj[f + 1].halfedge
          cycle == ManualWalk("next", h0)
      IN /\ cycle.returns /\ ManualWalk("prev", h0).returns
         /\ f \in Faces => Len(cycle.visited) = 3
         /\ \A k \in DOMAIN cycle.visited :
              LET h == cycle.visited[k]
              IN prev(next(h)) = h /\ next(prev(h)) = h
         /\ \A kind \in {"FaceVertex", "FaceEdge", "FaceHalfedge"} :
              LET ccw == ForOf(mesh.hObj, kind, h0, TRUE)
                  cw == ForOf(mesh.hObj, kind, h0, FALSE)
              IN /\ ccw.ends /\ cw.ends
                 /\ Len(ccw.values) = Len(cycle.visited)
                 /\ Len(cw.values) = Len(cycle.visited)
                 /\ ccw.values = ManualValues(kind, "next", h0)
                 /\ cw.values = ManualValues(kind, "prev", h0)

\* A built mesh with an interior face and a boundary loop of more than
\* three halfedges
C11_Witness ==
  /\ built
  /\ Faces # {}
  /\ \E f \in Boundaries :
       Len(ManualWalk("next", mesh.fObj[f + 1].halfedge).visited) > 3

(* -------------------------------- C12 --------------------------------- *)
\* The interior faces that have a halfedge based at v
InteriorFacesAt(v) ==
  {face(h) : h \in {g \in Halfedges : vertex(g) = v /\ ~mesh.hObj[g + 1].onBoundary}}

\* The number of elements v.adjacentFaces() and v.adjacentCorners() are to
\* yield: v.degree(), one fewer when v.onBoundary()
FaceDegree(v) == IF onBoundary(mesh, v) THEN degree(mesh, v) - 1 ELSE degree(mesh, v)

\* C12: after a build that returned true, for every vertex v and either
\* direction, v.adjacentFaces() ends and yields only interior faces, each
\* interior face incident to v exactly once, and v.adjacentCorners() ends and
\* yields only corners of the mesh; both yield v.degree() elements when v is
\* interior and v.degree() - 1 elements when v.onBoundary().
C12_VertexFacesCorners ==
  built =>
    \A v \in Vertices : \A ccw \in BOOLEAN :
      LET fs == ForOf(mesh.hObj, "VertexFace", mesh.vObj[v + 1].halfedge, ccw)
          cs == ForOf(mesh.hObj, "VertexCorner", mesh.vObj[v + 1].halfedge, ccw)
      IN /\ fs.ends /\ cs.ends
         /\ Range(fs.values) \subseteq Faces
         /\ Range(fs.values) \cap Boundaries = {}
         /\ Injective(fs.values)
         /\ Range(fs.values) = InteriorFacesAt(v)
         /\ Range(cs.values) \subseteq Elements(mesh.corners)
         /\ Len(fs.values) = FaceDegree(v)
         /\ Len(cs.values) = FaceDegree(v)

\* The same of the meshes built from soups in which no two triangles
\* traverse an edge in the same direction
VertexFacesCornersOfConsistentSoups == SameDirection \/ C12_VertexFacesCorners

\* A built mesh with a boundary vertex that has two interior faces, and an
\* interior vertex
C12_Witness ==
  /\ built
  /\ \E v \in Vertices : onBoundary(mesh, v) /\ degree(mesh, v) = 3
        /\ Len(ForOf(mesh.hObj, "VertexFace", mesh.vObj[v + 1].halfedge, FALSE).values) = 2
  /\ \E v \in Vertices : ~onBoundary(mesh, v)

(* -------------------------------- C13 --------------------------------- *)
corner(h) == mesh.hObj[h + 1].corner

FaceCornersAdvanceFirst ==
  built =>
    \A f \in Faces :
      LET h0 == mesh.fObj[f + 1].halfedge
          w == ManualWalk("prev", h0)
          cs == ForOf(mesh.hObj, "FaceCorner", h0, FALSE)
      IN /\ cs.ends
         /\ Len(cs.values) = Len(w.visited)
         /\ \A k \in DOMAIN cs.values : cs.values[k] = corner(prev(w.visited[k]))

RECURSIVE ManualSkip(_, _, _)
ManualSkip(via, h, fuel) ==
  IF ~mesh.hObj[twin(h) + 1].onBoundary THEN h
  ELSE IF fuel = 0 THEN Diverges
  ELSE ManualSkip(via, ManualStep(via, h), fuel - 1)

\* The first n values h.twin.face of the walk that starts at h, skips the
\* halfedges whose twin is on the boundary by via and advances by via
RECURSIVE ManualFaceFaces(_, _, _)
ManualFaceFaces(via, h, n) ==
  IF n = 0 THEN <<>>
  ELSE LET g == ManualSkip(via, h, Len(mesh.hObj))
       IN IF g = Diverges THEN <<Diverges>>
          ELSE <<face(twin(g))>> \o ManualFaceFaces(via, ManualStep(via, g), n - 1)

\* The stored halfedge of interior face f has its twin on the boundary
StoredTwinOnBoundary(f) ==
  mesh.hObj[twin(mesh.fObj[f + 1].halfedge) + 1].onBoundary

\* f.adjacentFaces(ccw) ends and yields, step for step, the values of the
\* manual walk by via
FaceFacesAgree(f, ccw, via) ==
  LET h0 == mesh.fObj[f + 1].halfedge
      fs == ForOf(mesh.hObj, "FaceFace", h0, ccw)
  IN fs.ends /\ fs.values = ManualFaceFaces(via, h0, Len(fs.values))

\* C14: after a build that returned true, for every interior face f,
\* including the faces whose stored halfedge has its twin on the boundary,
\* f.adjacentFaces(false) yields, step for step, h.twin.face for the manual
\* walk that starts at f.halfedge, skips halfedges whose twin is on the
\* boundary by stepping via prev, and advances via prev.
C14_FaceFacesCW == built => \A f \in Faces : FaceFacesAgree(f, FALSE, "prev")

\* The same of the faces whose stored halfedge has an interior twin, and of
\* the counter-clockwise iteration of every face
FaceFacesOtherwise ==
  built =>
    \A f \in Faces :
      /\ ~StoredTwinOnBoundary(f) => FaceFacesAgree(f, FALSE, "prev")
      /\ FaceFacesAgree(f, TRUE, "next")

\* A built mesh with an interior face whose stored halfedge has its twin on
\* the boundary and whose clockwise iteration has yielded two faces
C14_Witness ==
  /\ built
  /\ \E f \in Faces :
        /\ StoredTwinOnBoundary(f)
        /\ Len(ForOf(mesh.hObj, "FaceFace", mesh.fObj[f + 1].halfedge, FALSE).values) = 2

(* -------------------------------- C15 --------------------------------- *)
Corners == Elements(mesh.corners)

\* Corner.halfedge, Corner.face
CornerHalfedge(c) == mesh.cObj[c + 1].halfedge
CornerFace(c) == face(CornerHalfedge(c))

\* Slip: the corner lies on the base vertex of its halfedge
CornerVertexOfHalfedge(c) == vertex(CornerHalfedge(c))

\* Corner.vertex
CornerVertex(c) == vertex(prev(CornerHalfedge(c)))

\* The vertices of the halfedges of the ring of face f
FaceVertices(f) == Range(ManualValues("FaceVertex", "next", mesh.fObj[f + 1].halfedge))

\* C15: after a build that returned true, every interior halfedge h has a
\* corner with h.corner.halfedge = h, every corner c has c.halfedge.corner = c
\* and an interior halfedge, every boundary halfedge has no corner, c.vertex
\* is the one vertex of c.face that is not an endpoint of c.halfedge, and
\* f.adjacentCorners() yields exactly the three corners of f, starting with
\* f.halfedge.next.corner.
C15_Corners ==
  built =>
    /\ \A h \in Halfedges :
          IF mesh.hObj[h + 1].onBoundary THEN corner(h) = Undef
          ELSE corner(h) \in Corners /\ CornerHalfedge(corner(h)) = h
    /\ \A c \in Corners :
          LET h == CornerHalfedge(c)
          IN /\ h \in Halfedges /\ ~mesh.hObj[h + 1].onBoundary
             /\ corner(h) = c
             /\ CornerFace(c) \in Faces
             /\ FaceVertices(CornerFace(c)) \ {vertex(h), vertex(next(h))}
                  = {CornerVertex(c)}
    /\ \A f \in Faces :
          LET h0 == mesh.fObj[f + 1].halfedge
              cs == ForOf(mesh.hObj, "FaceCorner", h0, TRUE)
          IN /\ cs.ends
             /\ cs.values = <<corner(next(h0)), corner(next(next(h0))), corner(h0)>>
             /\ Range(cs.values) = {c \in Corners : CornerFace(c) = f}
             /\ Injective(cs.values)

\* A built mesh with a boundary halfedge and two interior faces
C15_Witness ==
  /\ built
  /\ \E h \in Halfedges : mesh.hObj[h + 1].onBoundary /\ corner(h) = Undef
  /\ \E c, d \in Corners : CornerFace(c) # CornerFace(d)

(* -------------------------------- C16 --------------------------------- *)
\* The element stored at position i of array has index i, and no element is
\* stored twice
Indexed(objs, array) ==
  /\ \A i \in 0..(Len(array) - 1) :
        At(array, i) # Undef /\ objs[At(array, i) + 1].index = i
  /\ Injective(array)

\* C16: after a build that returned true, in each of the arrays vertices,
\* edges, faces, halfedges, corners and boundaries the element stored at
\* position i has index i; faces and boundary loops are numbered from 0
\* independently.
C16_Indices ==
  built =>
    /\ Indexed(mesh.vObj, mesh.vertices)
    /\ Indexed(mesh.eObj, mesh.edges)
    /\ Indexed(mesh.fObj, mesh.faces)
    /\ Indexed(mesh.hObj, mesh.halfedges)
    /\ Indexed(mesh.cObj, mesh.corners)
    /\ Indexed(mesh.fObj, mesh.boundaries)
    /\ Faces \cap Boundaries = {}

\* A built mesh with two boundary loops; a face and a boundary loop both have
\* index 0 and another face and boundary loop both have index 1
C16_Witness ==
  /\ built
  /\ Len(mesh.boundaries) = 2
  /\ \A i \in {0, 1} :
        /\ mesh.fObj[At(mesh.faces, i) + 1].index = i
        /\ mesh.fObj[At(mesh.boundaries, i) + 1].index = i

(* -------------------------------- C17 --------------------------------- *)
\* The unordered vertex pairs used by the triangles of the soup
SoupPairs == {{SoupEdge(p)[1], SoupEdge(p)[2]} : p \in Positions}

\* The array has the length it was preallocated with and no empty slot
Filled(array, n) == Len(array) = n /\ \A k \in DOMAIN array : array[k] # Undef

\* C17: after a build that returned true, vertices.length is the number of
\* soup positions, faces.length the number of soup triangles, edges.length
\* the number of distinct unordered vertex pairs used by triangles,
\* halfedges.length = 2 * edges.length, corners.length = 3 * faces.length,
\* the number of boundary halfedges is 2|E| - 3|F|, every preallocated array
\* has its preallocated length and no empty slot, and eulerCharacteristic()
\* is |V| - |E| + |F| of the soup.
C17_Counts ==
  built =>
    LET n == PreallocCounts(polygonSoup.v, polygonSoup.f)
        nE == Cardinality(SoupPairs)
        nF == Len(polygonSoup.f) \div 3
    IN /\ Len(mesh.vertices) = polygonSoup.v
       /\ Len(mesh.faces) = nF
       /\ Len(mesh.edges) = nE
       /\ Len(mesh.halfedges) = 2 * Len(mesh.edges)
       /\ Len(mesh.corners) = 3 * Len(mesh.faces)
       /\ Cardinality({h \in Halfedges : mesh.hObj[h + 1].onBoundary}) = 2 * nE - 3 * nF
       /\ Filled(mesh.vertices, n.nVertices)
       /\ Filled(mesh.edges, n.nEdges)
       /\ Filled(mesh.faces, n.nFaces)
       /\ Filled(mesh.halfedges, n.nHalfedges)
       /\ Filled(mesh.corners, n.nInteriorHalfedges)
       /\ Injective(mesh.halfedges)
       /\ eulerCharacteristic(mesh) = polygonSoup.v - nE + nF

\* A built closed mesh: four faces, six edges, no boundary halfedge
C17_Witness ==
  /\ built
  /\ Len(mesh.faces) = 4
  /\ Len(mesh.edges) = 6
  /\ {h \in Halfedges : mesh.hObj[h + 1].onBoundary} = {}
  /\ eulerCharacteristic(mesh) = 2

(* -------------------------------- C18 --------------------------------- *)
\* The sequence a traversal of iterator object o yields when it runs alone
Alone(o) ==
  ForOf(mesh.hObj, o.kind, ElementHalfedge(o.kind, o.element), o.ccw)

IsPrefix(s, t) == Len(s) <= Len(t) /\ \A k \in DOMAIN s : s[k] = t[k]

\* Every traversal has yielded a prefix of the sequence it yields alone, and
\* all of it when it is done
TraversalsAsAlone ==
  \A c \in DOMAIN cursors :
    LET alone == Alone(iterators[cursors[c].of])
    IN /\ alone.ends
       /\ ~cursors[c].threw
       /\ IsPrefix(cursors[c].yielded, alone.values)
       /\ cursors[c].done => cursors[c].yielded = alone.values

\* A step that advances a traversal changes that cursor only: no mesh
\* field, no iterator object and no other cursor
AdvanceIsLocal ==
  (Len(cursors') = Len(cursors) /\ cursors' # cursors) =>
     /\ mesh' = mesh
     /\ iterators' = iterators
     /\ Cardinality({c \in DOMAIN cursors : cursors'[c] # cursors[c]}) = 1

\* C18: traversals made from the same vertex, face or iterator object of a
\* built mesh and advanced in any interleaving each yield the sequence they
\* yield when run alone, also when the same iterator object is iterated a
\* second time, and advancing a traversal changes no field of a mesh element
\* and no cursor of another traversal.
C18_Traversals == []TraversalsAsAlone /\ [][AdvanceIsLocal]_vars

\* Two traversals of one iterator object: one is done after three values,
\* the other is in the middle of its sequence
C18_Witness ==
  \E c, d \in DOMAIN cursors :
    /\ c # d
    /\ cursors[c].of = cursors[d].of
    /\ cursors[c].done /\ Len(cursors[c].yielded) = 3
    /\ ~cursors[d].done /\ Len(cursors[d].yielded) = 1

(* -------------------------------- C19 --------------------------------- *)
\* A reference of a mesh in which the objects of a class are numbered from
\* n on, as a reference of a mesh in which they are numbered from 0 on
Renumber(x, n) == IF x = Undef THEN Undef ELSE x - n

RenumberArray(array, n) == [k \in DOMAIN array |-> Renumber(array[k], n)]

\* Mesh m without the objects counted by old, its other objects renumbered
WithoutEarlier(m, old) ==
  [vertices |-> RenumberArray(m.vertices, old.v),
   edges |-> RenumberArray(m.edges, old.e),
   faces |-> RenumberArray(m.faces, old.f),
   corners |-> RenumberArray(m.corners, old.c),
   halfedges |-> RenumberArray(m.halfedges, old.h),
   boundaries |-> RenumberArray(m.boundaries, old.f),
   generators |-> m.generators,
   vObj |-> [k \in 1..(Len(m.vObj) - old.v) |->
               [m.vObj[k + old.v] EXCEPT !.halfedge = Renumber(@, old.h)]],
   eObj |-> [k \in 1..(Len(m.eObj) - old.e) |->
               [m.eObj[k + old.e] EXCEPT !.halfedge = Renumber(@, old.h)]],
   fObj |-> [k \in 1..(Len(m.fObj) - old.f) |->
               [m.fObj[k + old.f] EXCEPT !.halfedge = Renumber(@, old.h)]],
   hObj |-> [k \in 1..(Len(m.hObj) - old.h) |->
               [m.hObj[k + old.h] EXCEPT !.vertex = Renumber(@, old.v),
                                         !.edge = Renumber(@, old.e),
                                         !.face = Renumber(@, old.f),
                                         !.corner = Renumber(@, old.c),
                                         !.next = Renumber(@, old.h),
                                         !.prev = Renumber(@, old.h),
                                         !.twin = Renumber(@, old.h)]],
   cObj |-> [k \in 1..(Len(m.cObj) - old.c) |->
               [m.cObj[k + old.c] EXCEPT !.halfedge = Renumber(@, old.h)]]]

\* No slot of array holds one of the first n objects of its class
NoneEarlier(array, n) == \A k \in DOMAIN array : array[k] = Undef \/ array[k] >= n

\* C19: build(B) on a mesh that has been built before, whether that build
\* returned true or false, returns what build(B) returns on a new Mesh,
\* raises the same alerts and leaves the same arrays, connectivity, boundary
\* loops and indices, with generators empty; no array holds an element or a
\* boundary loop of an earlier build.
C19_Rebuild ==
  earlier # <<>> =>
    LET fresh == build(NewMesh, polygonSoup.v, polygonSoup.f)
        old == earlier[Len(earlier)]
    IN /\ ret = fresh.ret
       /\ SubSeq(alerts, Len(alerts) - Len(fresh.alerts) + 1, Len(alerts)) = fresh.alerts
       /\ Objects(mesh) = [c \in DOMAIN old |-> old[c] + Objects(fresh)[c]]
       /\ WithoutEarlier(mesh, old) = MeshOf(fresh)
       /\ mesh.generators = <<>>
       /\ NoneEarlier(mesh.vertices, old.v) /\ NoneEarlier(mesh.edges, old.e)
       /\ NoneEarlier(mesh.faces, old.f) /\ NoneEarlier(mesh.boundaries, old.f)
       /\ NoneEarlier(mesh.halfedges, old.h) /\ NoneEarlier(mesh.corners, old.c)

\* A mesh with one boundary loop built on a Mesh that was built twice before:
\* the first build left two faces and a boundary loop, the second returned
\* false
C19_Witness ==
  /\ Len(earlier) = 2
  /\ earlier[1] = [v |-> 4, e |-> 5, f |-> 3, h |-> 10, c |-> 6]
  /\ earlier[2].v = 9 /\ Len(alerts) = 1
  /\ built
  /\ Len(mesh.boundaries) = 1

(* -------------------------------- C20 --------------------------------- *)
\* The mesh elements of an array that have their index in indices, and the
\* indices of a set of elements
WithIndex(objs, array, indices) ==
  {x \in Elements(array) : objs[x + 1].index \in indices}
IndicesOf(objs, elements) == {objs[x + 1].index : x \in elements}

\* The endpoints of edge e and the edges of face f, read off the halfedges
Endpoints(e) == {vertex(h) : h \in {g \in Halfedges : edge(g) = e}}
EdgesOfFace(f) == {edge(h) : h \in {g \in Halfedges : face(g) = f}}

\* C20: for every subset S and every index assignment of the constructor,
\* star(S) is S together with every edge that has an endpoint in S.vertices
\* and every face that has an edge among S.edges and those added edges.  The
\* right-hand sides are sets of mesh elements determined by the elements of
\* S alone, so the result, as elements, does not depend on the assignment.
C20_Star ==
  starCall.called =>
    LET S == starCall.subset
        vs == WithIndex(mesh.vObj, mesh.vertices, S.vertices)
        es == WithIndex(mesh.eObj, mesh.edges, S.edges)
               \cup {e \in Edges : Endpoints(e) \cap vs # {}}
        fs == WithIndex(mesh.fObj, mesh.faces, S.faces)
               \cup {f \in Faces : EdgesOfFace(f) \cap es # {}}
    IN /\ starCall.star.vertices = S.vertices
       /\ WithIndex(mesh.eObj, mesh.edges, starCall.star.edges) = es
       /\ WithIndex(mesh.fObj, mesh.faces, starCall.star.faces) = fs
       /\ starCall.star.edges = IndicesOf(mesh.eObj, es)
       /\ starCall.star.faces = IndicesOf(mesh.fObj, fs)

\* The star of one vertex under an index assignment that is not the storage
\* order: it has the vertex, two edges and one face of four vertices, five
\* edges and two faces
C20_Witness ==
  /\ starCall.called
  /\ Len(mesh.vertices) = 4
  /\ \E k \in DOMAIN mesh.vertices : mesh.vObj[mesh.vertices[k] + 1].index # k - 1
  /\ \E k \in DOMAIN mesh.edges : mesh.eObj[mesh.edges[k] + 1].index # k - 1
  /\ Cardinality(starCall.subset.vertices) = 1
  /\ starCall.subset.edges = {} /\ starCall.subset.faces = {}
  /\ Cardinality(starCall.star.edges) = 2
  /\ Cardinality(starCall.star.faces) = 1

(* -------------------------------- C21 --------------------------------- *)
\* The subset a call has returned, and whether the constructor has assigned
\* some vertex and some edge an index that is not its position
Result == Contents(sets, call.value)
Permuted ==
  /\ \E k \in DOMAIN mesh.vertices : mesh.vObj[mesh.vertices[k] + 1].index # k - 1
  /\ \E k \in DOMAIN mesh.edges : mesh.eObj[mesh.edges[k] + 1].index # k - 1

\* C21: for every subset S and every index assignment of the constructor,
\* closure(S) is S together with every edge of every face in S.faces and both
\* endpoints of every edge in S.edges or among those added edges
C21_Closure ==
  call.op = "closure" =>
    LET S == call.before
        fs == WithIndex(mesh.fObj, mesh.faces, S.faces)
        es == WithIndex(mesh.eObj, mesh.edges, S.edges)
               \cup UNION {EdgesOfFace(f) : f \in fs}
        vs == WithIndex(mesh.vObj, mesh.vertices, S.vertices)
               \cup UNION {Endpoints(e) : e \in es}
    IN /\ Result.faces = S.faces
       /\ Result.edges = IndicesOf(mesh.eObj, es)
       /\ Result.vertices = IndicesOf(mesh.vObj, vs)

\* The closure of one face and one vertex that is not a vertex of the face,
\* under an index assignment that is not the storage order
C21_Witness ==
  /\ call.op = "closure"
  /\ Permuted
  /\ Cardinality(call.before.faces) = 1
  /\ Cardinality(call.before.vertices) = 1
  /\ call.before.edges = {}
  /\ Cardinality(Result.edges) = 3
  /\ Cardinality(Result.vertices) = 4

(* -------------------------------- C22 --------------------------------- *)
\* The elements of the subset handed to the call
BeforeVertices == WithIndex(mesh.vObj, mesh.vertices, call.before.vertices)
BeforeEdges == WithIndex(mesh.eObj, mesh.edges, call.before.edges)
BeforeFaces == WithIndex(mesh.fObj, mesh.faces, call.before.faces)

\* The subset has the edges of its faces and the endpoints of its edges
BeforeClosed ==
  /\ \A f \in BeforeFaces : EdgesOfFace(f) \subseteq BeforeEdges
  /\ \A e \in BeforeEdges : Endpoints(e) \subseteq BeforeVertices

\* The vertices and the edges of the subset that lie in none of its faces,
\* and the vertices that lie in none of its edges
VerticesOffFaces ==
  {v \in BeforeVertices : \A f \in BeforeFaces : \A e \in EdgesOfFace(f) : v \notin Endpoints(e)}
EdgesOffFaces == {e \in BeforeEdges : \A f \in BeforeFaces : e \notin EdgesOfFace(f)}
VerticesOffEdges == {v \in BeforeVertices : \A e \in BeforeEdges : v \notin Endpoints(e)}

\* The dimension of the subset if it is a pure complex, and -1 if it is not
PureDimension ==
  IF ~BeforeClosed THEN -1
  ELSE IF BeforeFaces # {}
  THEN (IF VerticesOffFaces # {} \/ EdgesOffFaces # {} THEN -1 ELSE 2)
  ELSE IF BeforeEdges # {}
  THEN (IF VerticesOffEdges # {} THEN -1 ELSE 1)
  ELSE 0

\* C22: isPureComplex(S) returns -1 whenever S is not closed under closure
\* or S contains a vertex or an edge that lies in no top-dimensional simplex
\* of S; otherwise it returns 2 if S has faces, 1 if it has edges but no
\* faces, 0 if it has only vertices
C22_PureComplex ==
  (call.op = "isPureComplex" /\ call.before # EmptySubset) =>
    call.value = PureDimension

\* What isPureComplex returns: an edge of a closed subset with faces that
\* lies in none of the faces is not looked at
PureComplexByVertices ==
  call.op = "isPureComplex" =>
    call.value =
      IF ~BeforeClosed THEN -1
      ELSE IF BeforeFaces # {}
      THEN (IF VerticesOffFaces # {} THEN -1 ELSE 2)
      ELSE IF BeforeEdges # {}
      THEN (IF VerticesOffEdges # {} THEN -1 ELSE 1)
      ELSE 0

\* Two faces with their edges and vertices, and the edge between two of
\* their vertices that is an edge of neither: isPureComplex has returned 2
C22_Witness ==
  /\ call.op = "isPureComplex"
  /\ BeforeClosed
  /\ Cardinality(BeforeFaces) = 2
  /\ Cardinality(EdgesOffFaces) = 1
  /\ \A e \in EdgesOffFaces : \A v \in Endpoints(e) : v \notin VerticesOffFaces
  /\ call.value = 2

(* -------------------------------- C23 --------------------------------- *)
\* The edges that bound exactly one face of the subset, and the vertices that
\* bound exactly one edge of it
EdgesOfOneFace ==
  {e \in Edges : Cardinality({f \in BeforeFaces : e \in EdgesOfFace(f)}) = 1}
VerticesOfOneEdge ==
  {v \in Vertices : Cardinality({e \in BeforeEdges : v \in Endpoints(e)}) = 1}

\* The subset returned has these elements
ResultIs(vs, es, fs) ==
  /\ Result.vertices = IndicesOf(mesh.vObj, vs)
  /\ Result.edges = IndicesOf(mesh.eObj, es)
  /\ Result.faces = IndicesOf(mesh.fObj, fs)

\* C23: boundary(S) of a pure 2-complex S is the closure of the set of edges
\* that bound exactly one face of S; of a pure 1-complex it is the set of
\* vertices that bound exactly one edge of S; for every other S it is the
\* empty subset
C23_Boundary ==
  call.op = "boundary" =>
    IF PureDimension = 2
    THEN ResultIs(UNION {Endpoints(e) : e \in EdgesOfOneFace}, EdgesOfOneFace, {})
    ELSE IF PureDimension = 1
    THEN ResultIs(VerticesOfOneEdge, {}, {})
    ELSE ResultIs({}, {}, {})

\* What boundary returns: the subset is not asked whether it is a pure
\* complex, only whether it has faces, and if not, whether it has edges
BoundaryOfAnySubset ==
  call.op = "boundary" =>
    IF BeforeFaces # {}
    THEN ResultIs(UNION {Endpoints(e) : e \in EdgesOfOneFace}, EdgesOfOneFace, {})
    ELSE IF BeforeEdges # {}
    THEN ResultIs(VerticesOfOneEdge, {}, {})
    ELSE ResultIs({}, {}, {})

\* The boundary of one face without its edges and vertices: three edges and
\* three vertices
C23_Witness ==
  /\ call.op = "boundary"
  /\ Cardinality(call.before.faces) = 1
  /\ call.before.edges = {} /\ call.before.vertices = {}
  /\ Cardinality(Result.edges) = 3
  /\ Cardinality(Result.vertices) = 3

(* -------------------------------- C24 --------------------------------- *)
\* C24: for every subset S of a successfully built mesh, with or without
\* boundary, boundary(boundary(S)) has no vertices, no edges and no faces
C24_BoundaryOfBoundary ==
  call.op = "boundary" =>
    LET twice == boundary(operators, mesh, Result)
    IN twice.vertices = {} /\ twice.edges = {} /\ twice.faces = {}

\* The boundary of two faces of a mesh that has a boundary loop: four edges
\* and four vertices, whose boundary is taken in turn
C24_Witness ==
  /\ call.op = "boundary"
  /\ Len(mesh.boundaries) = 1
  /\ Cardinality(call.before.faces) = 2
  /\ Cardinality(Result.edges) = 4
  /\ Cardinality(Result.vertices) = 4

(* -------------------------------- C25 --------------------------------- *)
\* C25: for every subset S, star(star(S)) equals star(S) and
\* closure(closure(S)) equals closure(S), compared as vertex, edge and face
\* index sets
C25_Idempotent ==
  /\ call.op = "star" => equals(star(operators, mesh, Result), Result)
  /\ call.op = "closure" => equals(closure(operators, mesh, Result), Result)

\* The star of one vertex, which has added edges and faces, and the closure
\* of one face, which has added edges and vertices
C25_Witness ==
  \/ /\ call.op = "star"
     /\ Cardinality(call.before.vertices) = 1
     /\ call.before.edges = {} /\ call.before.faces = {}
     /\ Cardinality(Result.edges) = 3 /\ Cardinality(Result.faces) = 3
  \/ /\ call.op = "closure"
     /\ Cardinality(call.before.faces) = 1
     /\ call.before.edges = {} /\ call.before.vertices = {}
     /\ Cardinality(Result.edges) = 3 /\ Cardinality(Result.vertices) = 3

Bijection(objs, array) ==
  /\ \A x \in Elements(array) : objs[x + 1].index \in 0..(Len(array) - 1)
  /\ \A x, y \in Elements(array) : objs[x + 1].index = objs[y + 1].index => x = y

\* The sum of a row, and of column j of a matrix
RECURSIVE Sum(_)
Sum(row) == IF row = <<>> THEN 0 ELSE Head(row) + Sum(Tail(row))
ColumnSum(A, j) == Sum([i \in DOMAIN A |-> A[i][j]])

OnBoundary(h) == mesh.hObj[h + 1].onBoundary
BoundaryHalfedges == {h \in Halfedges : OnBoundary(h)}
LoopWalk(f) == ManualWalk("next", mesh.fObj[f + 1].halfedge)

\* Every halfedge has a twin; a halfedge is on the boundary exactly when its
\* face is a boundary loop, and its twin is then interior and on its edge
BoundaryTwins ==
  \A h \in Halfedges :
     /\ twin(h) # Undef
     /\ OnBoundary(h) <=> face(h) \in Boundaries
     /\ OnBoundary(h) => ~OnBoundary(twin(h)) /\ edge(twin(h)) = edge(h)

\* The walks of the loops return, visit the halfedges of their loop, each
\* once and each vertex once, are disjoint and cover the boundary halfedges;
\* isBoundaryLoop is true of the loops and false of the faces
BoundaryCycles ==
  /\ \A f \in Boundaries :
       /\ LoopWalk(f).returns
       /\ Injective(LoopWalk(f).visited)
       /\ Injective([k \in DOMAIN LoopWalk(f).visited |-> vertex(LoopWalk(f).visited[k])])
       /\ Range(LoopWalk(f).visited) = {h \in Halfedges : face(h) = f}
       /\ isBoundaryLoop(mesh, f)
  /\ \A f, g \in Boundaries :
       f # g => Range(LoopWalk(f).visited) \cap Range(LoopWalk(g).visited) = {}
  /\ UNION {Range(LoopWalk(f).visited) : f \in Boundaries} = BoundaryHalfedges
  /\ \A f \in Faces : ~isBoundaryLoop(mesh, f)
  /\ Boundaries \cap Faces = {}

\* For a boundary halfedge b, b.next.twin is an interior halfedge with a
\* boundary twin that ends where b.twin starts
LinkedBackwards ==
  \A b \in BoundaryHalfedges :
     /\ ~OnBoundary(twin(next(b)))
     /\ OnBoundary(twin(twin(next(b))))
     /\ vertex(next(twin(next(b)))) = vertex(twin(b))

\* C28: after every build that returns true no interior halfedge is left
\* without a twin; a halfedge has onBoundary true exactly when its face is an
\* element of mesh.boundaries, and its twin is then an interior halfedge on
\* the same edge; the next-cycles of the boundary loops partition the
\* boundary halfedges, one cycle per loop, with isBoundaryLoop() true for
\* exactly these faces; each loop passes through each of its vertices once;
\* and for every boundary halfedge b, b.next.twin is the boundary-adjacent
\* interior halfedge that precedes b.twin along the hole
C28_BoundaryLoops == built => BoundaryTwins /\ BoundaryCycles /\ LinkedBackwards

\* The same of the meshes built from soups in which no two triangles
\* traverse an edge in the same direction
BoundaryLoopsOfConsistentSoups == SameDirection \/ C28_BoundaryLoops

\* A built mesh with one boundary loop of five halfedges, from a soup in
\* which no two triangles traverse an edge in the same direction
C28_Witness ==
  /\ built
  /\ ~SameDirection
  /\ Cardinality(Boundaries) = 1
  /\ Cardinality(BoundaryHalfedges) = 5

(* -------------------------------- C29 --------------------------------- *)
\* for (let x of element.adjacent...(ccw)) ends without a TypeError
Ends(kind, halfedge, ccw) ==
  ForOf(mesh.hObj, kind, halfedge, ccw).ends
    /\ ~ForOf(mesh.hObj, kind, halfedge, ccw).throws

\* C29: build terminates, returning true or false, for every soup of
\* triangles with three distinct valid indices, including non-manifold and
\* inconsistently oriented soups (its boundary walks return to their seed and
\* the iterations of its validation return); and on every mesh for which
\* build returned true every adjacency iteration of every vertex, interior
\* face and boundary loop, in both directions, ends after finitely many steps
C29_Terminates ==
  /\ ret \in {"none", "true", "false"}
  /\ built =>
       /\ \A v \in Vertices : \A kind \in VertexKinds : \A ccw \in BOOLEAN :
            Ends(kind, mesh.vObj[v + 1].halfedge, ccw)
       /\ \A f \in Faces \cup Boundaries : \A kind \in FaceKinds : \A ccw \in BOOLEAN :
            Ends(kind, mesh.fObj[f + 1].halfedge, ccw)

\* A mesh with a boundary loop built from a soup in which two triangles
\* traverse an edge in the same direction
C29_Witness == built /\ SameDirection /\ Boundaries # {}

(* -------------------------------- C30 --------------------------------- *)
\* The element at position i of the array has index i
StorageOrder(objs, array) ==
  \A k \in DOMAIN array : objs[array[k] + 1].index = k - 1

\* C30: constructing SimplicialComplexOperators on a built mesh assigns
\* indices in storage order: afterwards mesh.vertices[i].index = i,
\* mesh.edges[i].index = i and mesh.faces[i].index = i for every i, the
\* random-permutation branch not being taken, so two constructions on the
\* same mesh give the same index assignment
C30_StorageOrder ==
  operators.made =>
    /\ StorageOrder(mesh.vObj, mesh.vertices)
    /\ StorageOrder(mesh.eObj, mesh.edges)
    /\ StorageOrder(mesh.fObj, mesh.faces)

\* Before the constructor the indices are those of build, in storage order
StorageOrderOfBuild ==
  (built /\ ~operators.made) =>
    /\ StorageOrder(mesh.vObj, mesh.vertices)
    /\ StorageOrder(mesh.eObj, mesh.edges)
    /\ StorageOrder(mesh.fObj, mesh.faces)

\* The constructor has left the vertices, the edges and the faces of the
\* mesh of two triangles with indices that are not their positions
C30_Witness ==
  /\ operators.made
  /\ Len(mesh.vertices) = 4
  /\ ~StorageOrder(mesh.vObj, mesh.vertices)
  /\ ~StorageOrder(mesh.eObj, mesh.edges)
  /\ ~StorageOrder(mesh.fObj, mesh.faces)
====
